---- MODULE Spec2Model ----
(***************************************************************************)
(* go-balancer: the backend registry (pool.ServerPool), the round-robin    *)
(* strategy, the forwarding engine (LoadBalancer.ServeHTTP) and the health *)
(* prober (HealthChecker), as a state machine.                             *)
(*                                                                         *)
(* Backends are heap objects: the registry is a slice of pointers, and a   *)
(* request or a probe in flight keeps the pointer it was given.  A pointer *)
(* is an index into heap; 0 is nil.  A backend's ID "backend-<k>" is       *)
(* modelled by the number k (Sprintf of an int is injective).              *)
(***************************************************************************)
EXTENDS Integers, Sequences, FiniteSets, Bags, TLC

\* ------------------------------------------------------------------ bounds
\* Backend objects ever allocated by AddBackend (constructor included).
MaxBackends == 3
\* Request goroutines that can be in flight together.
MaxReqs == 2
\* Probe goroutines the model follows at a time (the others have not returned).
MaxProbes == 1
\* Caps of the round-robin counter (an int64 in the code, never near 2^63
\* here) and of Metrics.totalRequests, with the membership fixed.
MaxCounter == 4
MaxRecorded == 2
\* The same caps where one request is followed beside the callers of the
\* registry, the probes, the lock or the handler of /metrics.
ChurnCounter == 2
ChurnRecorded == 1
\* A sequential caller starts NextBackend calls while the counter and the
\* length of its log are below this.
MaxCalls == 6
\* Backend URLs in a Config under validation.
MaxConfBackends == 2
\* Probe goroutines in flight together while the loop of the health checker is
\* followed: a pass waits while its probes would exceed this.
MaxLoopProbes == 3
\* Cap of the round-robin counter under concurrent callers of NextBackend
\* beside callers of the registry's operations.
StratCounter == 3

Reqs == 1..MaxReqs
IDs == 1..MaxBackends

\* ------------------------------------------------------- program constants
StatusOK == 200
StatusBadRequest == 400
StatusInternalServerError == 500
StatusBadGateway == 502
StatusServiceUnavailable == 503
StatusGatewayTimeout == 504

\* errors.go: ErrInvalidConfig ErrorCode = iota + 1000, one per line after it.
ErrInvalidConfig == 1000
ErrInvalidPort == 1001
ErrInvalidBackend == 1002
ErrInvalidHealthCheck == 1003
ErrInvalidTimeout == 1004
ErrBackendUnavailable == 1005
ErrBackendTimeout == 1006
ErrBackendConnection == 1007
ErrBackendResponse == 1008
ErrNoHealthyBackends == 1009
ErrStrategyFailure == 1010
ErrPoolEmpty == 1011
ErrMetricsFailure == 1012
ErrHealthCheckFailed == 1013
ErrHealthCheckTimeout == 1014
ErrRequestTimeout == 1015
ErrRequestFailed == 1016
ErrResponseCopy == 1017

\* A mutant: the empty pool answered like the other unavailability errors.
HTTPStatusCodePoolUnavailable(code) ==
    CASE code \in {ErrInvalidConfig, ErrInvalidPort, ErrInvalidBackend,
                   ErrInvalidHealthCheck, ErrInvalidTimeout} -> StatusBadRequest
      [] code \in {ErrBackendUnavailable, ErrNoHealthyBackends, ErrPoolEmpty} ->
            StatusServiceUnavailable
      [] code \in {ErrBackendTimeout, ErrRequestTimeout} -> StatusGatewayTimeout
      [] code \in {ErrBackendConnection, ErrBackendResponse} -> StatusBadGateway
      [] code \in {ErrHealthCheckFailed, ErrHealthCheckTimeout} -> StatusServiceUnavailable
      [] OTHER -> StatusInternalServerError

\* A mutant: one status per category (backend 503, request 500).
HTTPStatusCodeByCategory(code) ==
    CASE code >= ErrInvalidConfig /\ code <= ErrInvalidTimeout -> StatusBadRequest
      [] code >= ErrBackendUnavailable /\ code <= ErrNoHealthyBackends ->
            StatusServiceUnavailable
      [] code >= ErrHealthCheckFailed /\ code <= ErrHealthCheckTimeout ->
            StatusServiceUnavailable
      [] OTHER -> StatusInternalServerError

\* LoadBalancerError.HTTPStatusCode: the switch over the code.
HTTPStatusCode(code) ==
    CASE code \in {ErrInvalidConfig, ErrInvalidPort, ErrInvalidBackend,
                   ErrInvalidHealthCheck, ErrInvalidTimeout} -> StatusBadRequest
      [] code \in {ErrBackendUnavailable, ErrNoHealthyBackends} -> StatusServiceUnavailable
      [] code \in {ErrBackendTimeout, ErrRequestTimeout} -> StatusGatewayTimeout
      [] code \in {ErrBackendConnection, ErrBackendResponse} -> StatusBadGateway
      [] code \in {ErrStrategyFailure, ErrPoolEmpty, ErrMetricsFailure} -> StatusInternalServerError
      [] code \in {ErrHealthCheckFailed, ErrHealthCheckTimeout} -> StatusServiceUnavailable
      [] code \in {ErrRequestFailed, ErrResponseCopy} -> StatusInternalServerError
      [] OTHER -> StatusInternalServerError

\* The codes of the const block.
ErrorCodes ==
    {ErrInvalidConfig, ErrInvalidPort, ErrInvalidBackend, ErrInvalidHealthCheck,
     ErrInvalidTimeout, ErrBackendUnavailable, ErrBackendTimeout,
     ErrBackendConnection, ErrBackendResponse, ErrNoHealthyBackends,
     ErrStrategyFailure, ErrPoolEmpty, ErrMetricsFailure, ErrHealthCheckFailed,
     ErrHealthCheckTimeout, ErrRequestTimeout, ErrRequestFailed, ErrResponseCopy}

\* The category a code is declared under: the comment that heads its group of
\* lines in the const block.
CategoryOf(code) ==
    CASE code \in {ErrInvalidConfig, ErrInvalidPort, ErrInvalidBackend,
                   ErrInvalidHealthCheck, ErrInvalidTimeout} -> "configuration"
      [] code \in {ErrBackendUnavailable, ErrBackendTimeout, ErrBackendConnection,
                   ErrBackendResponse, ErrNoHealthyBackends} -> "backend"
      [] code \in {ErrStrategyFailure, ErrPoolEmpty, ErrMetricsFailure} -> "load balancer"
      [] code \in {ErrHealthCheckFailed, ErrHealthCheckTimeout} -> "health check"
      [] code \in {ErrRequestTimeout, ErrRequestFailed, ErrResponseCopy} -> "request"

\* The range of codes the README's table "Error Categories & Codes" documents
\* for a category.
DocumentedRange(category) ==
    CASE category = "configuration" -> 1000..1099
      [] category = "backend" -> 1100..1199
      [] category = "load balancer" -> 1200..1299
      [] category = "health check" -> 1300..1399
      [] category = "request" -> 1400..1499

\* The category predicates, on the code of a *LoadBalancerError.
IsConfigurationError(code) == code >= ErrInvalidConfig /\ code <= ErrInvalidTimeout
IsBackendError(code) == code >= ErrBackendUnavailable /\ code <= ErrNoHealthyBackends
IsHealthCheckError(code) == code >= ErrHealthCheckFailed /\ code <= ErrHealthCheckTimeout
IsRequestError(code) == code >= ErrRequestTimeout /\ code <= ErrResponseCopy

\* The predicates that answer true for a code.
PredicatesTrue(code) ==
    (IF IsConfigurationError(code) THEN {"IsConfigurationError"} ELSE {})
    \cup (IF IsBackendError(code) THEN {"IsBackendError"} ELSE {})
    \cup (IF IsHealthCheckError(code) THEN {"IsHealthCheckError"} ELSE {})
    \cup (IF IsRequestError(code) THEN {"IsRequestError"} ELSE {})

\* LoadBalancerError.Is against a target *LoadBalancerError: the codes compared.
Is(code, target) == code = target

\* The Message each constructor gives its error: the format string followed by
\* the arguments fmt.Sprintf puts into it (the backend's ID, the status).
Message(code, id, status) ==
    CASE code = ErrNoHealthyBackends -> <<"no healthy backends available">>
      [] code = ErrPoolEmpty -> <<"server pool is empty">>
      [] code = ErrBackendTimeout -> <<"backend timeout: %s", id>>
      [] code = ErrBackendConnection -> <<"backend connection failed: %s", id>>
      [] code = ErrBackendResponse ->
            <<"backend response error: %s (status: %d)", id, status>>
      [] code = ErrRequestFailed -> <<"request failed">>
      [] OTHER -> <<>>

\* ------------------------------------------------------------------- state
VARIABLES
    heap,      \* backend objects: heap[p] = [ID, Healthy], p a pointer
    backends,  \* ServerPool.backends: the slice of pointers
    counter,   \* RoundRobinStrategy.counter
    req,       \* per request goroutine: where it is in NextBackend / ServeHTTP
    out,       \* what the step just taken handed to a caller (NoOut: nothing)
    probe,     \* per probe goroutine (checkBackend): where it is
    metrics,   \* Metrics: the request counters
    log,       \* the positions a sequential caller of NextBackend got, in order
    snap,      \* the slice a caller got from GetBackends, and what it saw then
    conf,      \* the Config at hand, and how far main got with it
    lberr,     \* a LoadBalancerError at hand, and what was asked of it
    hc,        \* the HealthChecker's loop goroutine, its ticker and stopCh
    obs,       \* history: what the latest observation of each backend found
    lk,        \* ServerPool.mutex: the SetBackendHealth call that holds the write lock
    scrape,    \* the handler of /metrics: where it is, Metrics.mu, what it wrote
    steady     \* history: per NextBackend call, the backends healthy all through it

vars == <<heap, backends, counter, req, out, probe, metrics, log, snap, conf, lberr, hc, obs, lk, scrape,
          steady>>

\* The variables that the registry, the strategy, the forwarding engine and the
\* probes leave alone.
others == <<lberr, hc, obs, lk, scrape, steady>>

\* ------------------------------------------------- the registry (ServerPool)
\* url.Parse on the inputs of the model: ":bad" has no scheme before its colon.
URLs == {"http://b", ":bad"}
ParseOK(u) == u # ":bad"

\* Positions 1..Len(bs) of the slice; Go's index i is position i + 1.
Positions(bs) == 1..Len(bs)

GetBackendCount(bs) == Len(bs)

GetHealthyBackendCount(h, bs) ==
    Cardinality({i \in Positions(bs) : h[bs[i]].Healthy})

\* A mutant: a bounds check that refuses index 0.
GetBackendByIndexFromOne(bs, index) ==
    IF index > 0 /\ index < Len(bs) THEN bs[index + 1] ELSE 0

\* Bounds-checked read: the pointer at Go index `index`, or nil (0).
GetBackendByIndex(bs, index) ==
    IF index >= 0 /\ index < Len(bs) THEN bs[index + 1] ELSE 0

\* The position of the first backend of the slice with this ID, or 0.
FirstWithID(h, bs, id) ==
    LET hits == {i \in Positions(bs) : h[bs[i]].ID = id}
    IN IF hits = {} THEN 0 ELSE CHOOSE i \in hits : \A j \in hits : i <= j

\* SetBackendHealth: the first backend with this ID gets the flag; no-op if none.
SetBackendHealth(h, bs, id, healthy) ==
    LET i == FirstWithID(h, bs, id)
    IN IF i = 0 THEN h ELSE [h EXCEPT ![bs[i]].Healthy = healthy]

\* A mutant: the last element moved into the hole.
removeFromSliceSwap(bs, index) ==
    IF index < 0 \/ index >= Len(bs) THEN bs
    ELSE SubSeq([bs EXCEPT ![index + 1] = bs[Len(bs)]], 1, Len(bs) - 1)

\* removeFromSlice(slice, index), index a Go index.
removeFromSlice(bs, index) ==
    IF index < 0 \/ index >= Len(bs) THEN bs
    ELSE SubSeq(bs, 1, index) \o SubSeq(bs, index + 2, Len(bs))

\* The ID AddBackend gives the new backend: "backend-%d" of len(sp.backends)+1.
NewID(bs) == Len(bs) + 1

\* A mutant: the new backend put in front.
AddToPoolFront(h, bs) ==
    [heap |-> Append(h, [ID |-> NewID(bs), Healthy |-> TRUE]),
     backends |-> <<Len(h) + 1>> \o bs]

\* AddBackend on a parsable URL: a new object, healthy, appended.
AddToPool(h, bs) ==
    [heap |-> Append(h, [ID |-> NewID(bs), Healthy |-> TRUE]),
     backends |-> Append(bs, Len(h) + 1)]

\* The pool NewLoadBalancer builds from n configured, parsable URLs.
RECURSIVE NewPool(_)
NewPool(n) ==
    IF n = 0 THEN [heap |-> <<>>, backends |-> <<>>]
    ELSE LET p == NewPool(n - 1) IN AddToPool(p.heap, p.backends)

\* ----------------------------------------------------------------- metrics
\* The maps start empty: a key that is absent reads 0.  The two gauges start
\* at Go's zero value.
NewMetrics ==
    [totalRequests |-> 0, successfulRequests |-> 0, failedRequests |-> 0,
     backendRequests |-> [id \in IDs |-> 0], backendFailures |-> [id \in IDs |-> 0],
     healthyBackends |-> 0, totalBackends |-> 0]

\* UpdateBackendCount: the one writer of the two gauges.  It is exported; no
\* code of the repository calls it (CallUpdateBackendCount is a call of it
\* from outside).
UpdateBackendCount(m, healthy, total) ==
    [m EXCEPT !.healthyBackends = healthy, !.totalBackends = total]

\* GetSnapshot: the totals and the gauges, copied under the read lock.
GetSnapshot(m) ==
    [TotalRequests |-> m.totalRequests,
     SuccessfulRequests |-> m.successfulRequests,
     FailedRequests |-> m.failedRequests,
     HealthyBackends |-> m.healthyBackends,
     TotalBackends |-> m.totalBackends]

RecordRequest(m, id) ==
    [m EXCEPT !.totalRequests = @ + 1, !.successfulRequests = @ + 1,
              !.backendRequests[id] = @ + 1]

\* A mutant: a failure that is not counted among the total.
RecordFailureBesideTotal(m, id) ==
    [m EXCEPT !.failedRequests = @ + 1, !.backendFailures[id] = @ + 1]

RecordFailure(m, id) ==
    [m EXCEPT !.totalRequests = @ + 1, !.failedRequests = @ + 1,
              !.backendFailures[id] = @ + 1]

\* ------------------------------------------------------- responses, headers
\* A header (http.Header): for each name the list of its values, in order; a
\* name that is absent has the empty list.
HeaderNames == {"Set-Cookie", "X-Id"}
NoHeader == [name \in HeaderNames |-> <<>>]
Headers == {NoHeader, [name \in HeaderNames |->
                          IF name = "Set-Cookie" THEN <<"a", "b">> ELSE <<"1">>]}

\* A mutant: Header.Set in place of Header.Add, the last value wins.
RECURSIVE SetAll(_, _, _)
SetAll(w, name, values) ==
    IF values = <<>> THEN w
    ELSE SetAll([w EXCEPT ![name] = <<Head(values)>>], name, Tail(values))

\* The inner loop of the header copy: w.Header().Add(name, value) for each
\* value, in order.
RECURSIVE AddAll(_, _, _)
AddAll(w, name, values) ==
    IF values = <<>> THEN w
    ELSE AddAll([w EXCEPT ![name] = Append(@, Head(values))], name, Tail(values))

\* The outer loop: every name of resp.Header, into the header w.
RECURSIVE CopyHeaderInto(_, _, _)
CopyHeaderInto(w, hdr, names) ==
    IF names = {} THEN w
    ELSE LET name == CHOOSE n \in names : TRUE
         IN CopyHeaderInto(AddAll(w, name, hdr[name]), hdr, names \ {name})

\* The header the caller gets for a relayed response with header hdr.
CopyHeader(hdr) == CopyHeaderInto(NoHeader, hdr, DOMAIN hdr)

\* What the outbound call can come to.  badreq: NewRequestWithContext fails;
\* conn: client.Do fails; timeout: the deadline fired; cancel: the caller
\* cancelled the inbound request; resp: client.Do returned a response.
\* lb.client is &http.Client{} with no CheckRedirect, so client.Do follows a
\* redirect of the backend's: status, hdr and body are those of the response
\* client.Do returns, the last of the chain, and via is the status of the
\* backend's own answer when that was a redirect (0 when resp is the backend's
\* own answer).  A body is the sequence of chunks io.Copy moves.
BackendStatuses == {StatusOK, 404, StatusInternalServerError,
                    StatusServiceUnavailable}
RedirectStatuses == {302}
Bodies == {<<"he", "llo">>}
NoOutcome ==
    [kind |-> "", status |-> 0, body |-> <<>>, hdr |-> NoHeader, via |-> 0]
Outcomes ==
    {[kind |-> k, status |-> 0, body |-> <<>>, hdr |-> NoHeader, via |-> 0] :
        k \in {"badreq", "conn", "timeout", "cancel"}}
    \cup {[kind |-> "resp", status |-> s, body |-> bd, hdr |-> hd, via |-> 0] :
            s \in BackendStatuses, bd \in Bodies, hd \in Headers}
    \cup {[kind |-> "resp", status |-> s, body |-> bd, hdr |-> NoHeader,
           via |-> v] :
            s \in BackendStatuses, bd \in Bodies, v \in RedirectStatuses}

\* ------------------------------------------------------ the error at hand
\* No error constructed; nothing asked of it.
NoError ==
    [Code |-> 0, asked |-> {}, status |-> 0, cats |-> {},
     is |-> [target |-> 0, same |-> FALSE]]

\* The loop of the health checker when it is not followed step by step (a
\* pass of it is then the action HealthPass).
NoLoop == [pc |-> "none", stop |-> FALSE, tick |-> FALSE]

\* The state of the variables in `others` while nothing uses them.
\* Nothing observed of any backend object yet.
NoObs == [b \in 1..MaxBackends |-> "none"]

\* The registry's lock with no writer inside.  (A reader's critical section is
\* one step, so no state has a read lock held.)
Unlocked == [held |-> FALSE, id |-> 0, healthy |-> FALSE, r |-> 0]

\* No request for /metrics under way: nothing written, Metrics.mu free.
NoScrape ==
    [pc |-> "idle", locked |-> FALSE, snapshot |-> GetSnapshot(NewMetrics),
     backendRequests |-> NewMetrics.backendRequests,
     backendFailures |-> NewMetrics.backendFailures]

\* No call of NextBackend followed: nothing known to have stayed healthy.
NoSteady == [r \in 1..MaxReqs |-> {}]

OthersAtRest ==
    /\ lberr = NoError /\ hc = NoLoop /\ obs = NoObs /\ lk = Unlocked
    /\ scrape = NoScrape /\ steady = NoSteady

\* --------------------------------------------------------------------- Init
\* A request goroutine outside ServeHTTP.  Inside: n is backendCount, i the
\* loop variable, index and b the locals `index` and `backend` of NextBackend
\* (b then the backend of ServeHTTP), o what the outbound call came to.
IdleReq == [pc |-> "idle", n |-> 0, i |-> 0, b |-> 0, index |-> 0, o |-> NoOutcome]
\* What an operation hands back to its caller: ServeHTTP's response (status,
\* the structured error's code and message, the body, whether an outbound
\* request was sent, the backend pointer it chose and the status the backend
\* gave), or the result of AddBackend / RemoveBackend in ret.  Beside it: the
\* header written (hdr), what the outbound call came to (o), and the
\* arguments of a registry operation (id, url, healthy).
Result(op, status, code, body, b, sent, bstatus, ret) ==
    [op |-> op, status |-> status, code |-> code, body |-> body, b |-> b,
     sent |-> sent, bstatus |-> bstatus, ret |-> ret,
     hdr |-> NoHeader, o |-> NoOutcome, id |-> 0, url |-> "", healthy |-> FALSE]
ApiResult(op, ret) == Result(op, 0, 0, <<>>, 0, FALSE, 0, ret)
NoOut == ApiResult("none", "")

\* ----------------------------------------------------- configuration (Config)
\* The backend URLs a Config is given.  url.Parse fails on ":bad" alone (no
\* scheme before its colon); of the others it parses "localhost:8080" to the
\* scheme "localhost" with no host, "http://" to a scheme with no host, and
\* "" and "not-a-url" to neither.
ConfigURLs == URLs \cup {"", "not-a-url", "localhost:8080", "http://"}
HasScheme(u) == u \in {"http://b", "localhost:8080", "http://"}
HasHost(u) == u = "http://b"

\* Sequences over S of length at most n.
SeqsUpTo(S, n) == UNION {[1..k -> S] : k \in 0..n}

\* The Configs considered (durations in seconds).
Configs ==
    [Port : {0, 1, 65535, 65536},
     Backends : SeqsUpTo(ConfigURLs, MaxConfBackends),
     HealthCheckPath : {"", "/health"},
     HealthCheckInterval : {0, 1, 2},
     HealthCheckTimeout : {0, 1, 2},
     BackendTimeout : {0, 30}]

\* The loop over c.Backends: one message per URL that url.Parse refuses.
RECURSIVE BackendErrors(_, _)
BackendErrors(bs, i) ==
    IF i > Len(bs) THEN <<>>
    ELSE (IF ParseOK(bs[i])
          THEN <<>>
          ELSE << <<"backend[%d] '%s' is not a valid URL: %v", i - 1, bs[i]>> >>)
         \o BackendErrors(bs, i + 1)

\* The local slice `errors` of ValidateConfig when it reaches its last test.
CollectErrors(c) ==
    (IF c.Port <= 0 \/ c.Port > 65535
     THEN << <<"port %d must be between 1 and 65535", c.Port>> >> ELSE <<>>)
    \o (IF Len(c.Backends) = 0
        THEN << <<"at least one backend is required">> >> ELSE <<>>)
    \o BackendErrors(c.Backends, 1)
    \o (IF c.HealthCheckPath = ""
        THEN << <<"health check path cannot be empty">> >> ELSE <<>>)
    \o (IF c.HealthCheckInterval <= 0
        THEN << <<"health check interval must be positive">> >> ELSE <<>>)
    \o (IF c.HealthCheckTimeout <= 0
        THEN << <<"health check timeout must be positive">> >> ELSE <<>>)
    \o (IF c.HealthCheckTimeout >= c.HealthCheckInterval
        THEN << <<"health check timeout (%s) must be less than interval (%s)",
                 c.HealthCheckTimeout, c.HealthCheckInterval>> >>
        ELSE <<>>)
    \o (IF c.BackendTimeout <= 0
        THEN << <<"backend timeout must be positive">> >> ELSE <<>>)

\* ValidateConfig: the violations its result carries; <<>> is nil.  The error
\* it returns is formatted from errors[0] alone.
ValidateConfig(c) ==
    LET errors == CollectErrors(c)
    IN IF Len(errors) > 0 THEN <<errors[1]>> ELSE <<>>

\* The Config at hand before anything was done with it.
NewConf(c) ==
    [cfg |-> c, phase |-> "new", verr |-> <<>>, err |-> 0, started |-> FALSE]

\* No snapshot taken yet.
NoSnapshot == [taken |-> FALSE, backends |-> <<>>, seen |-> <<>>]

\* A valid Config with n backends, validated and built into a running load
\* balancer (durations in seconds).
ValidConfig(n) ==
    [Port |-> 8000, Backends |-> [i \in 1..n |-> "http://b"],
     HealthCheckPath |-> "/health", HealthCheckInterval |-> 2,
     HealthCheckTimeout |-> 1, BackendTimeout |-> 30]
RunningConf(n) ==
    [cfg |-> ValidConfig(n), phase |-> "running", verr |-> <<>>, err |-> 0,
     started |-> TRUE]

\* The state NewLoadBalancer leaves: n >= 1 configured backends, all healthy,
\* counter 0, fresh metrics, no request and no probe in flight yet.
Init ==
    \E n \in 1..MaxBackends :
        /\ heap = NewPool(n).heap
        /\ backends = NewPool(n).backends
        /\ counter = 0
        /\ req = [r \in Reqs |-> IdleReq]
        /\ out = NoOut
        /\ probe = EmptyBag
        /\ metrics = NewMetrics
        /\ log = [calls |-> <<>>, fresh |-> TRUE]
        /\ snap = NoSnapshot
        /\ conf = RunningConf(n)
        /\ OthersAtRest

\* ------------------------------------------- construction: NewLoadBalancer
\* The loop over cfg.Backends: AddBackend for each, stopping at the first
\* error with the pool as far as it was filled.
RECURSIVE FillPool(_, _, _)
FillPool(pool, urls, i) ==
    IF i > Len(urls) THEN [err |-> 0, heap |-> pool.heap, backends |-> pool.backends]
    ELSE IF ~ParseOK(urls[i])
    THEN [err |-> ErrInvalidBackend, heap |-> pool.heap, backends |-> pool.backends]
    ELSE FillPool(AddToPool(pool.heap, pool.backends), urls, i + 1)

\* A mutant: the load balancer handed out, prober started, beside the error.
NewLoadBalancerPartial(c) ==
    LET filled == FillPool(NewPool(0), c.Backends, 1)
    IN [err |-> IF filled.err # 0 THEN filled.err
                ELSE IF GetBackendCount(filled.backends) = 0 THEN ErrPoolEmpty
                ELSE 0,
        heap |-> filled.heap, backends |-> filled.backends, started |-> TRUE]

\* NewLoadBalancer: the error it returns (0: nil), the pool of the load
\* balancer it returns (empty: no load balancer) and whether the prober was
\* started.
NewLoadBalancer(c) ==
    LET filled == FillPool(NewPool(0), c.Backends, 1)
        none == [heap |-> <<>>, backends |-> <<>>, started |-> FALSE]
    IN IF filled.err # 0 THEN [err |-> filled.err] @@ none
       ELSE IF GetBackendCount(filled.backends) = 0
       THEN [err |-> ErrPoolEmpty] @@ none
       ELSE [err |-> 0, heap |-> filled.heap, backends |-> filled.backends,
             started |-> TRUE]

\* Before main has done anything with Config c.
InitConf ==
    \E c \in Configs :
        /\ heap = <<>>
        /\ backends = <<>>
        /\ counter = 0
        /\ req = [r \in Reqs |-> IdleReq]
        /\ out = NoOut
        /\ probe = EmptyBag
        /\ metrics = NewMetrics
        /\ log = [calls |-> <<>>, fresh |-> TRUE]
        /\ snap = NoSnapshot
        /\ conf = NewConf(c)
        /\ OthersAtRest

\* cfg.Validate(): main goes on only when it returned nil.
Validate ==
    /\ conf.phase = "new"
    /\ LET err == ValidateConfig(conf.cfg)
       IN conf' = [conf EXCEPT !.verr = err,
                               !.phase = IF err = <<>> THEN "validated"
                                         ELSE "rejected"]
    /\ out' = NoOut
    /\ UNCHANGED <<heap, backends, counter, req, probe, metrics>>

\* balancer.NewLoadBalancer(cfg), by main after a successful Validate or by
\* a caller that did not validate.
Construct ==
    /\ conf.phase \in {"new", "validated"}
    /\ LET lb == NewLoadBalancer(conf.cfg)
       IN /\ heap' = lb.heap
          /\ backends' = lb.backends
          /\ conf' = [conf EXCEPT !.err = lb.err, !.started = lb.started,
                                  !.phase = IF lb.err = 0 THEN "running"
                                            ELSE "failed"]
    /\ out' = NoOut
    /\ UNCHANGED <<counter, req, probe, metrics>>

\* ------------------------------------------------ registry operations (API)
\* LoadBalancer.AddBackend -> ServerPool.AddBackend.
AddBackend(u) ==
    /\ Len(heap) < MaxBackends
    /\ IF ParseOK(u)
       THEN /\ heap' = AddToPool(heap, backends).heap
            /\ backends' = AddToPool(heap, backends).backends
            /\ out' = [ApiResult("AddBackend", "nil") EXCEPT !.url = u]
       ELSE /\ UNCHANGED <<heap, backends>>
            /\ out' = [ApiResult("AddBackend", "error") EXCEPT !.url = u]
    /\ UNCHANGED <<counter, req, probe, metrics>>

\* LoadBalancer.RemoveBackend -> ServerPool.RemoveBackend.
RemoveBackend(id) ==
    LET i == FirstWithID(heap, backends, id)
    IN /\ IF i # 0
          THEN /\ backends' = removeFromSlice(backends, i - 1)
               /\ out' = [ApiResult("RemoveBackend", "true") EXCEPT !.id = id]
          ELSE /\ UNCHANGED backends
               /\ out' = [ApiResult("RemoveBackend", "false") EXCEPT !.id = id]
       /\ UNCHANGED <<heap, counter, req, probe, metrics>>

\* ServerPool.GetBackends: a new slice with the pointers of the registry.  What
\* the caller reads through them at that moment is kept in seen.
GetBackends ==
    /\ snap' = [taken |-> TRUE, backends |-> backends,
                seen |-> [i \in Positions(backends) |-> heap[backends[i]]]]
    /\ out' = NoOut
    /\ UNCHANGED <<heap, backends, counter, req, probe, metrics>>

\* ServerPool.SetBackendHealth called on the pool directly.
SetHealth(id, healthy) ==
    /\ heap' = SetBackendHealth(heap, backends, id, healthy)
    /\ out' = [ApiResult("SetBackendHealth", "") EXCEPT
                  !.id = id, !.healthy = healthy]
    /\ UNCHANGED <<backends, counter, req, probe, metrics>>

\* --------------------------------- the strategy: RoundRobinStrategy.NextBackend
\* A mutant: the index taken from the counter after the add, not before it.
AttemptIndexFromNext(next, n) == next % n

\* The Go index an attempt looks at: int((next - 1) % int64(backendCount)).
AttemptIndex(next, n) == (next - 1) % n

\* A mutant: an attempt that returns any backend it fetched, healthy or not.
AcceptsAny(h, backend) == backend # 0

\* Whether an attempt returns the backend it fetched.
Accepts(h, backend) == backend # 0 /\ h[backend].Healthy

\* A mutant: the loop condition `i <= backendCount`, one attempt too many.
MoreAttemptsInclusive(i, n) == i <= n

\* The loop condition `i < backendCount`, on i after its i++.
MoreAttempts(i, n) == i < n

\* NextBackend, lines 21-24: read the count; none at once when it is 0.
\* (ServeHTTP -> getNextHealthyBackend -> NextBackend starts here.)
ReqStart(r) ==
    /\ req[r].pc = "idle"
    /\ LET backendCount == GetBackendCount(backends)
       IN req' = [req EXCEPT ![r] =
                    IF backendCount = 0
                    THEN [IdleReq EXCEPT !.pc = "none"]
                    ELSE [IdleReq EXCEPT !.pc = "select", !.n = backendCount]]
    /\ out' = NoOut
    /\ UNCHANGED <<heap, backends, counter, probe, metrics>>

\* Lines 28-29 of a turn of the loop: the atomic add, made under no lock, and
\* the index from the count read at the start.
ReqAdd(r) ==
    /\ req[r].pc = "select"
    /\ LET next == counter + 1
       IN /\ counter' = next
          /\ req' = [req EXCEPT ![r].pc = "added",
                                ![r].index = AttemptIndex(next, req[r].n)]
    /\ out' = NoOut
    /\ UNCHANGED <<heap, backends, probe, metrics>>

\* Line 31: GetBackendByIndex(index), under the registry's read lock, which
\* it releases when it returns.
ReqFetch(r) ==
    /\ req[r].pc = "added"
    /\ req' = [req EXCEPT ![r].pc = "fetched",
                          ![r].b = GetBackendByIndex(backends, req[r].index)]
    /\ out' = NoOut
    /\ UNCHANGED <<heap, backends, counter, probe, metrics>>

\* Lines 32-37: `backend != nil && backend.Healthy`, read through the pointer
\* under no lock; return the backend, go round again, or return nil.
ReqRead(r) ==
    /\ req[r].pc = "fetched"
    /\ req' = [req EXCEPT ![r] =
                IF Accepts(heap, @.b)
                THEN [@ EXCEPT !.pc = "got"]
                ELSE IF MoreAttempts(@.i + 1, @.n)
                     THEN [@ EXCEPT !.pc = "select", !.i = @ + 1, !.b = 0, !.index = 0]
                     ELSE [@ EXCEPT !.pc = "none", !.i = @ + 1, !.b = 0, !.index = 0]]
    /\ out' = NoOut
    /\ UNCHANGED <<heap, backends, counter, probe, metrics>>

\* ------------------------------------- the forwarding engine: ServeHTTP
\* A mutant: the two classifications swapped.
NoBackendErrorSwapped(h, bs) ==
    IF GetBackendCount(bs) = 0 THEN ErrNoHealthyBackends ELSE ErrPoolEmpty

\* The error getNextHealthyBackend returns when the strategy gave nil.
NoBackendError(h, bs) ==
    LET healthyCount == GetHealthyBackendCount(h, bs)
        totalCount == GetBackendCount(bs)
    IN IF totalCount = 0 THEN ErrPoolEmpty ELSE ErrNoHealthyBackends

\* A mutant: the request that found no backend counted as a failed one.
MetricsAfterNoBackendCounted(m) ==
    [m EXCEPT !.totalRequests = @ + 1, !.failedRequests = @ + 1]

\* The metrics after a request that found no backend: lines 91-100 call neither
\* RecordFailure nor RecordRequest.
MetricsAfterNoBackend(m) == m

\* balancer.go 72-83 and 91-100: no backend; http.Error with the mapped status.
ReqNoBackend(r) ==
    /\ req[r].pc = "none"
    /\ LET code == NoBackendError(heap, backends)
       IN out' = Result("ServeHTTP", HTTPStatusCode(code), code,
                        Message(code, 0, 0), 0, FALSE, 0, "")
    /\ req' = [req EXCEPT ![r] = IdleReq]
    /\ metrics' = MetricsAfterNoBackend(metrics)
    /\ UNCHANGED <<heap, backends, counter, probe>>

\* The error of a failed client.Do: timeout only when ctx.Err() is
\* DeadlineExceeded.
SendError(kind) ==
    IF kind = "timeout" THEN ErrBackendTimeout ELSE ErrBackendConnection

\* A mutant: the backend's own status written back.
ErrorStatusRelayed(bstatus) == bstatus

\* The status written for a backend response with status >= 500.
ErrorStatusFor(bstatus) == HTTPStatusCode(ErrBackendResponse)

\* A mutant: a 5xx answer taken as a failure of the backend too.
FailureSeenStrict(o) == o.kind \in {"conn", "timeout", "cancel"} \/ o.status >= 500

\* Whether the engine takes outcome o as a failure of the backend: err != nil
\* from client.Do, whatever ended the call.
FailureSeen(o) == o.kind \in {"conn", "timeout", "cancel"}

\* Whether the handling of outcome o calls RecordRequest or RecordFailure.
Records(o) == o.kind # "badreq"

\* The heap after SetBackendHealth(backend.ID, false) for the chosen backend.
HealthAfter(h, bs, backend) == SetBackendHealth(h, bs, h[backend].ID, FALSE)

\* A mutant: a failed send is answered without being recorded.
MetricsAfterSilent(m, id, o) ==
    IF o.kind \in {"badreq", "conn", "timeout", "cancel"} THEN m
    ELSE IF o.status >= 500 THEN RecordFailure(m, id)
    ELSE RecordRequest(m, id)

\* The metrics after the handling of outcome o.
MetricsAfter(m, id, o) ==
    IF o.kind = "badreq" THEN m
    ELSE IF o.kind \in {"conn", "timeout", "cancel"} THEN RecordFailure(m, id)
    ELSE IF o.status >= 500 THEN RecordFailure(m, id)
    ELSE RecordRequest(m, id)

\* Whether the response of outcome o is relayed: lines 176-192 are reached.
Relayed(o) == o.kind = "resp" /\ o.status < 500

\* Line 186: the ways io.Copy(w, resp.Body) can return, as pairs of the number
\* of chunks written and whether err != nil.  It returns the first error of a
\* Read other than EOF (the deadline of BackendTimeout fires, the connection
\* breaks) or of a Write: after any number of chunks, the last one included
\* (the error then comes where EOF was due).  Without an error every chunk
\* was written.  No body is copied on the other paths.
CopyEnds(o) ==
    IF Relayed(o)
    THEN {<<n, TRUE>> : n \in 0..Len(o.body)} \cup {<<Len(o.body), FALSE>>}
    ELSE {<<0, FALSE>>}

\* The response written for outcome o when io.Copy returned after `copied`
\* chunks, with an error or not (failed); id is the chosen backend's ID.
\* Lines 186-192: the error of the copy leaves the header, the status and the
\* chunks written so far with the caller, and ErrResponseCopy is logged only.
ResponseFor(backend, id, o, copied, failed) ==
    IF o.kind = "badreq"
    THEN Result("ServeHTTP", HTTPStatusCode(ErrRequestFailed), ErrRequestFailed,
                Message(ErrRequestFailed, id, 0), backend, FALSE, 0, "")
    ELSE IF o.kind \in {"conn", "timeout", "cancel"}
    THEN Result("ServeHTTP", HTTPStatusCode(SendError(o.kind)), SendError(o.kind),
                Message(SendError(o.kind), id, 0), backend, TRUE, 0, "")
    ELSE IF o.status >= 500
    THEN Result("ServeHTTP", ErrorStatusFor(o.status), ErrBackendResponse,
                Message(ErrBackendResponse, id, o.status), backend, TRUE,
                o.status, "")
    ELSE [Result("ServeHTTP", o.status,
                 IF failed THEN ErrResponseCopy ELSE 0,
                 SubSeq(o.body, 1, copied), backend, TRUE, o.status, "")
             EXCEPT !.hdr = CopyHeader(o.hdr)]

\* balancer.go 103-131: the outbound request is built and sent, and what it
\* came to is at hand (err of NewRequestWithContext, or err / resp of
\* client.Do).
ReqDo(r, o) ==
    /\ req[r].pc = "got"
    /\ req' = [req EXCEPT ![r].pc = "back", ![r].o = o]
    /\ out' = NoOut
    /\ UNCHANGED <<heap, backends, counter, probe, metrics>>

\* Lines 145, 160, 170: RecordFailure / RecordRequest for backend.ID, under
\* Metrics.mu.
ReqRecord(r) ==
    /\ req[r].pc = "back"
    /\ Records(req[r].o)
    /\ metrics' = MetricsAfter(metrics, heap[req[r].b].ID, req[r].o)
    /\ req' = [req EXCEPT ![r].pc = "recorded"]
    /\ out' = NoOut
    /\ UNCHANGED <<heap, backends, counter, probe>>

\* Line 148: SetBackendHealth(backend.ID, false), under the registry's lock.
ReqMark(r) ==
    /\ req[r].pc = "recorded"
    /\ FailureSeen(req[r].o)
    /\ heap' = HealthAfter(heap, backends, req[r].b)
    /\ req' = [req EXCEPT ![r].pc = "marked"]
    /\ out' = NoOut
    /\ UNCHANGED <<backends, counter, probe, metrics>>

\* Whether request r is at the point where it answers its caller.
AtResponse(q) ==
    \/ q.pc = "back" /\ ~Records(q.o)
    \/ q.pc = "recorded" /\ ~FailureSeen(q.o)
    \/ q.pc = "marked"

\* Lines 118, 150, 165, 176-192: the answer to the caller (http.Error, or the
\* header and status of the response and as much of its body as io.Copy
\* moves: `copied` chunks, io.Copy returning an error or not); ServeHTTP
\* returns.
ReqRespond(r, copied, failed) ==
    /\ AtResponse(req[r])
    /\ <<copied, failed>> \in CopyEnds(req[r].o)
    /\ out' = [ResponseFor(req[r].b, heap[req[r].b].ID, req[r].o, copied,
                            failed)
                  EXCEPT !.o = req[r].o]
    /\ req' = [req EXCEPT ![r] = IdleReq]
    /\ UNCHANGED <<heap, backends, counter, probe, metrics>>

\* ------------------------------------------- the health prober: HealthChecker
\* A probe goroutine in flight: the pointer it was launched with; pc "net" while
\* its GET is out, "set" when it is about to call SetBackendHealth(ID, healthy).
NetProbe(b) == [pc |-> "net", b |-> b, healthy |-> FALSE]
InFlight == BagCardinality(probe)

\* checkAllBackends: one goroutine per backend of the snapshot.  The model
\* follows those launched for the positions in S; the others stay out.
HealthPass(S) ==
    /\ S # {}
    /\ S \subseteq Positions(backends)
    /\ probe' = probe (+) SetToBag({NetProbe(backends[i]) : i \in S})
    /\ out' = NoOut
    /\ UNCHANGED <<heap, backends, counter, req, metrics>>

\* What the probe's GET can come to: a transport error, a timeout, a status.
ProbeResults ==
    {[err |-> "error", status |-> 0], [err |-> "timeout", status |-> 0],
     [err |-> "", status |-> StatusOK], [err |-> "", status |-> 204],
     [err |-> "", status |-> StatusServiceUnavailable]}

\* A mutant: every answer counts as healthy.
ProbeHealthyAnswered(res) == res.err = ""

\* The health a probe computes from what its GET came to.
ProbeHealthy(res) == res.err = "" /\ res.status = StatusOK

\* Whether the probe goes on to call SetBackendHealth: always after an error,
\* after a response only when the flag it reads differs.
ProbeWrites(h, b, res) ==
    res.err # "" \/ h[b].Healthy # ProbeHealthy(res)

\* The code of the error the probe logs: the timeout or the failure of the
\* GET, or the failure it reports when an answer turns the backend unhealthy.
ProbeCode(h, b, res) ==
    IF res.err # ""
    THEN (IF res.err = "timeout" THEN ErrHealthCheckTimeout ELSE ErrHealthCheckFailed)
    ELSE IF h[b].Healthy # ProbeHealthy(res) /\ ~ProbeHealthy(res)
    THEN ErrHealthCheckFailed
    ELSE 0

\* What a probe found: the backend, what the GET came to (o.kind, bstatus), the
\* health computed from it and the code of the error logged.
ProbeFound(h, b, res) ==
    [Result("checkBackend", 0, ProbeCode(h, b, res), <<>>, b, TRUE, res.status, "")
        EXCEPT !.healthy = ProbeHealthy(res),
               !.o = [NoOutcome EXCEPT !.kind = IF res.err = "" THEN "resp" ELSE res.err,
                                       !.status = res.status]]

\* checkBackend 103-125: the GET returns; on a response the probe reads
\* backend.Healthy through its pointer, without the lock.
ProbeDo(p, res) ==
    /\ BagIn(p, probe)
    /\ p.pc = "net"
    /\ probe' = (probe (-) SetToBag({p})) (+)
                (IF ProbeWrites(heap, p.b, res)
                 THEN SetToBag({[pc |-> "set", b |-> p.b, healthy |-> ProbeHealthy(res)]})
                 ELSE EmptyBag)
    /\ out' = ProbeFound(heap, p.b, res)
    /\ UNCHANGED <<heap, backends, counter, req, metrics>>

\* checkBackend 95, 116, 134: SetBackendHealth(backend.ID, healthy).
ProbeSet(p) ==
    /\ BagIn(p, probe)
    /\ p.pc = "set"
    /\ heap' = SetBackendHealth(heap, backends, heap[p.b].ID, p.healthy)
    /\ probe' = probe (-) SetToBag({p})
    /\ out' = NoOut
    /\ UNCHANGED <<backends, counter, req, metrics>>

\* ------------------------------------------------------- the whole program
\* An outcome that records a request is taken while the cap allows.
Recordable(o, cap) == o.kind # "badreq" => metrics.totalRequests < cap

\* A pass whose followed probes fit the cap.
Followed(S) == InFlight + Cardinality(S) <= MaxProbes

\* The program as main.go runs it: the membership is the configured one;
\* requests and probes run concurrently.
Next ==
    \/ \E r \in Reqs : ReqStart(r) /\ UNCHANGED <<log, snap, conf, others>>
    \/ \E r \in Reqs : counter < MaxCounter /\ ReqAdd(r) /\ UNCHANGED <<log, snap, conf, others>>
    \/ \E r \in Reqs : ReqFetch(r) /\ UNCHANGED <<log, snap, conf, others>>
    \/ \E r \in Reqs : ReqRead(r) /\ UNCHANGED <<log, snap, conf, others>>
    \/ \E r \in Reqs : ReqNoBackend(r) /\ UNCHANGED <<log, snap, conf, others>>
    \/ \E r \in Reqs, o \in Outcomes :
          Recordable(o, MaxRecorded) /\ ReqDo(r, o) /\ UNCHANGED <<log, snap, conf, others>>
    \/ \E r \in Reqs : ReqRecord(r) /\ UNCHANGED <<log, snap, conf, others>>
    \/ \E r \in Reqs : ReqMark(r) /\ UNCHANGED <<log, snap, conf, others>>
    \/ \E r \in Reqs : \E c \in CopyEnds(req[r].o) :
          ReqRespond(r, c[1], c[2]) /\ UNCHANGED <<log, snap, conf, others>>
    \/ \E S \in SUBSET Positions(backends) :
          Followed(S) /\ HealthPass(S) /\ UNCHANGED <<log, snap, conf, others>>
    \/ \E p \in BagToSet(probe), res \in ProbeResults :
          ProbeDo(p, res) /\ UNCHANGED <<log, snap, conf, others>>
    \/ \E p \in BagToSet(probe) : ProbeSet(p) /\ UNCHANGED <<log, snap, conf, others>>

Spec == Init /\ [][Next]_vars

\* The same with LoadBalancer.AddBackend / RemoveBackend called at run time,
\* one request at a time.  What the outbound call and a probe's GET come to is
\* drawn from fewer cases: a failed connection, a timeout or a plain 200 for
\* the request; an error, a 200 or a 503 for the probe.
ChurnOutcomes ==
    {o \in Outcomes : o.kind \in {"conn", "timeout"}
                        \/ (o.status = StatusOK /\ o.hdr = NoHeader
                            /\ o.via = 0)}
ChurnProbeResults ==
    {res \in ProbeResults : res.err # "timeout" /\ res.status # 204}

NextChurn ==
    \/ \E u \in URLs : AddBackend(u) /\ UNCHANGED <<log, snap, conf, others>>
    \/ \E id \in IDs : RemoveBackend(id) /\ UNCHANGED <<log, snap, conf, others>>
    \/ ReqStart(1) /\ UNCHANGED <<log, snap, conf, others>>
    \/ counter < ChurnCounter /\ ReqAdd(1) /\ UNCHANGED <<log, snap, conf, others>>
    \/ ReqFetch(1) /\ UNCHANGED <<log, snap, conf, others>>
    \/ ReqRead(1) /\ UNCHANGED <<log, snap, conf, others>>
    \/ ReqNoBackend(1) /\ UNCHANGED <<log, snap, conf, others>>
    \/ \E o \in ChurnOutcomes :
          Recordable(o, ChurnRecorded) /\ ReqDo(1, o) /\ UNCHANGED <<log, snap, conf, others>>
    \/ ReqRecord(1) /\ UNCHANGED <<log, snap, conf, others>>
    \/ ReqMark(1) /\ UNCHANGED <<log, snap, conf, others>>
    \/ \E c \in CopyEnds(req[1].o) :
          ReqRespond(1, c[1], c[2]) /\ UNCHANGED <<log, snap, conf, others>>
    \/ \E S \in SUBSET Positions(backends) :
          Followed(S) /\ HealthPass(S) /\ UNCHANGED <<log, snap, conf, others>>
    \/ \E p \in BagToSet(probe), res \in ChurnProbeResults :
          ProbeDo(p, res) /\ UNCHANGED <<log, snap, conf, others>>
    \/ \E p \in BagToSet(probe) : ProbeSet(p) /\ UNCHANGED <<log, snap, conf, others>>

SpecChurn == Init /\ [][NextChurn]_vars

\* ------------------------------------- the strategy under a sequential caller
\* One caller uses the pool and the strategy directly, one operation after the
\* other: NextBackend calls, whose results it logs, and registry operations,
\* after which it starts a new log.
Idle == req[1].pc = "idle"
NewLog == [calls |-> <<>>, fresh |-> FALSE]

\* The caller takes what NextBackend returned (a pointer, or 0 for nil).
SeqReturn ==
    /\ req[1].pc \in {"got", "none"}
    /\ log' = [log EXCEPT !.calls = Append(@, req[1].b)]
    /\ req' = [req EXCEPT ![1] = IdleReq]
    /\ out' = NoOut
    /\ UNCHANGED <<heap, backends, counter, probe, metrics>>

NextSeq ==
    \/ \E u \in URLs : Idle /\ AddBackend(u) /\ log' = NewLog /\ UNCHANGED <<snap, conf, others>>
    \/ \E id \in IDs : Idle /\ RemoveBackend(id) /\ log' = NewLog /\ UNCHANGED <<snap, conf, others>>
    \/ \E id \in IDs, healthy \in BOOLEAN :
          Idle /\ SetHealth(id, healthy) /\ log' = NewLog /\ UNCHANGED <<snap, conf, others>>
    \/ /\ counter < MaxCalls /\ Len(log.calls) < MaxCalls
       /\ ReqStart(1) /\ UNCHANGED <<log, snap, conf, others>>
    \/ ReqAdd(1) /\ UNCHANGED <<log, snap, conf, others>>
    \/ ReqFetch(1) /\ UNCHANGED <<log, snap, conf, others>>
    \/ ReqRead(1) /\ UNCHANGED <<log, snap, conf, others>>
    \/ SeqReturn /\ UNCHANGED <<snap, conf, others>>

SpecSeq == Init /\ [][NextSeq]_vars

\* --------------------------------------------- from a Config to the prober
NextConf ==
    \/ Validate /\ UNCHANGED <<log, snap, others>>
    \/ Construct /\ UNCHANGED <<log, snap, others>>
    \/ \E S \in SUBSET Positions(backends) :
          /\ conf.started /\ Followed(S)
          /\ HealthPass(S) /\ UNCHANGED <<log, snap, conf, others>>
    \/ \E p \in BagToSet(probe), res \in ProbeResults :
          ProbeDo(p, res) /\ UNCHANGED <<log, snap, conf, others>>
    \/ \E p \in BagToSet(probe) : ProbeSet(p) /\ UNCHANGED <<log, snap, conf, others>>

SpecConf == InitConf /\ [][NextConf]_vars

\* ------------------------------------------- the registry under its own API
\* A caller uses the pool alone: it adds, removes, sets flags, and at some
\* point takes a snapshot that it keeps.
NextSnap ==
    \/ \E u \in URLs : AddBackend(u) /\ UNCHANGED <<log, snap, conf, others>>
    \/ \E id \in IDs : RemoveBackend(id) /\ UNCHANGED <<log, snap, conf, others>>
    \/ \E id \in IDs, healthy \in BOOLEAN :
          SetHealth(id, healthy) /\ UNCHANGED <<log, snap, conf, others>>
    \/ ~snap.taken /\ GetBackends /\ UNCHANGED <<log, conf, others>>

SpecSnap == Init /\ [][NextSnap]_vars

\* ------------------- the strategy under concurrent callers, registry changing
\* Request goroutines up to the choice of a backend, beside callers of
\* AddBackend and RemoveBackend.
\* getNextHealthyBackend line 84: the backend goes to ServeHTTP (the forwarding
\* that follows is not followed here).
ReqHandOver(r) ==
    /\ req[r].pc = "got"
    /\ out' = [ApiResult("NextBackend", "") EXCEPT !.b = req[r].b]
    /\ req' = [req EXCEPT ![r] = IdleReq]
    /\ UNCHANGED <<heap, backends, counter, probe, metrics>>

NextStrat ==
    \/ \E u \in URLs : AddBackend(u) /\ UNCHANGED <<log, snap, conf, others>>
    \/ \E id \in IDs : RemoveBackend(id) /\ UNCHANGED <<log, snap, conf, others>>
    \/ \E r \in Reqs : ReqStart(r) /\ UNCHANGED <<log, snap, conf, others>>
    \/ \E r \in Reqs :
          counter < StratCounter /\ ReqAdd(r) /\ UNCHANGED <<log, snap, conf, others>>
    \/ \E r \in Reqs : ReqFetch(r) /\ UNCHANGED <<log, snap, conf, others>>
    \/ \E r \in Reqs : ReqRead(r) /\ UNCHANGED <<log, snap, conf, others>>
    \/ \E r \in Reqs : ReqHandOver(r) /\ UNCHANGED <<log, snap, conf, others>>
    \/ \E r \in Reqs : ReqNoBackend(r) /\ UNCHANGED <<log, snap, conf, others>>

SpecStrat == Init /\ [][NextStrat]_vars

\* ------------------------ concurrent calls of NextBackend, the registry fixed
\* The same request goroutines with the membership fixed, beside callers of
\* SetBackendHealth.  steady keeps, for each call of NextBackend under way, the
\* backends that were registered and healthy in every state since the call
\* began.
HealthyRegistered(h, bs) == {bs[i] : i \in {j \in Positions(bs) : h[bs[j]].Healthy}}

\* steady after the step: the calls in `starts` begin with it.
Tracked(starts) ==
    steady' = [r \in Reqs |->
                 IF r \in starts THEN HealthyRegistered(heap', backends')
                 ELSE steady[r] \cap HealthyRegistered(heap', backends')]

\* What the steps of this section leave alone, steady apart.
callsFrame == <<log, snap, conf, lberr, hc, obs, lk, scrape>>

NextCalls ==
    \/ \E id \in IDs, healthy \in BOOLEAN :
          SetHealth(id, healthy) /\ Tracked({}) /\ UNCHANGED callsFrame
    \/ \E r \in Reqs : ReqStart(r) /\ Tracked({r}) /\ UNCHANGED callsFrame
    \/ \E r \in Reqs :
          counter < StratCounter /\ ReqAdd(r) /\ Tracked({}) /\ UNCHANGED callsFrame
    \/ \E r \in Reqs : ReqFetch(r) /\ Tracked({}) /\ UNCHANGED callsFrame
    \/ \E r \in Reqs : ReqRead(r) /\ Tracked({}) /\ UNCHANGED callsFrame
    \/ \E r \in Reqs : ReqHandOver(r) /\ Tracked({}) /\ UNCHANGED callsFrame
    \/ \E r \in Reqs : ReqNoBackend(r) /\ Tracked({}) /\ UNCHANGED callsFrame

SpecCalls == Init /\ [][NextCalls]_vars

\* ------------------------------------------- the loop of the health checker
\* healthCheckLoop as a goroutine: pc "boot" from `go hc.healthCheckLoop()`,
\* "made" once it has its ticker, "wait" at the select after the immediate pass,
\* "exited" after the return.  stop: stopCh is closed.  tick: a tick waits in
\* ticker.C (a channel of capacity 1).
InitLoop ==
    \E n \in 1..MaxBackends :
        /\ heap = NewPool(n).heap
        /\ backends = NewPool(n).backends
        /\ counter = 0
        /\ req = [r \in Reqs |-> IdleReq]
        /\ out = NoOut
        /\ probe = EmptyBag
        /\ metrics = NewMetrics
        /\ log = [calls |-> <<>>, fresh |-> TRUE]
        /\ snap = NoSnapshot
        /\ conf = RunningConf(n)
        /\ lberr = NoError
        /\ hc = [pc |-> "boot", stop |-> FALSE, tick |-> FALSE]
        /\ obs = NoObs
        /\ lk = Unlocked
        /\ scrape = NoScrape
        /\ steady = NoSteady

\* checkAllBackends: GetBackends, then one goroutine per backend of the copy.
CheckAllBackends(pr, bs) ==
    pr (+) SetToBag({NetProbe(bs[i]) : i \in Positions(bs)})

\* What the loop and Stop leave alone.
loopFrame ==
    <<heap, backends, counter, req, metrics, log, snap, conf, lberr, obs, lk, scrape, steady>>

\* healthCheckLoop 56: ticker := time.NewTicker(hc.checkInterval).  The ticker
\* runs from here on.
LoopNewTicker ==
    /\ hc.pc = "boot"
    /\ hc' = [hc EXCEPT !.pc = "made"]
    /\ out' = NoOut
    /\ UNCHANGED <<probe, loopFrame>>

\* healthCheckLoop 60: the immediate pass, then on to the select.
LoopStart ==
    /\ hc.pc = "made"
    /\ InFlight + Len(backends) <= MaxLoopProbes
    /\ probe' = CheckAllBackends(probe, backends)
    /\ hc' = [hc EXCEPT !.pc = "wait"]
    /\ out' = NoOut
    /\ UNCHANGED loopFrame

\* The ticker puts a tick into ticker.C (dropped when one waits there already).
\* It can do so from NewTicker until the deferred ticker.Stop, so also while
\* the immediate pass is yet to be made.
Tick ==
    /\ hc.pc \in {"made", "wait"}
    /\ ~hc.tick
    /\ hc' = [hc EXCEPT !.tick = TRUE]
    /\ out' = NoOut
    /\ UNCHANGED <<probe, loopFrame>>

\* The select takes `case <-ticker.C`: a pass.  With stopCh closed as well, the
\* select chooses among its ready cases at random.
LoopTick ==
    /\ hc.pc = "wait"
    /\ hc.tick
    /\ InFlight + Len(backends) <= MaxLoopProbes
    /\ probe' = CheckAllBackends(probe, backends)
    /\ hc' = [hc EXCEPT !.tick = FALSE]
    /\ out' = NoOut
    /\ UNCHANGED loopFrame

\* A mutant: the loop returns only once no probe is in flight.
MayExitDrained(h, pr) == h.pc = "wait" /\ h.stop /\ pr = EmptyBag

\* Whether the select can take `case <-hc.stopCh`.
MayExit(h, pr) == h.pc = "wait" /\ h.stop

\* The select takes `case <-hc.stopCh`: the loop returns (ticker.Stop deferred).
LoopExit ==
    /\ MayExit(hc, probe)
    /\ hc' = [hc EXCEPT !.pc = "exited"]
    /\ out' = NoOut
    /\ UNCHANGED <<probe, loopFrame>>

\* HealthChecker.Stop (LoadBalancer.Stop): close(hc.stopCh).  close of a channel
\* that is closed already panics ("close of closed channel"); the panic goes
\* to the caller of Stop.
Stop ==
    /\ IF hc.stop
       THEN /\ out' = ApiResult("Stop", "panic")
            /\ UNCHANGED hc
       ELSE /\ hc' = [hc EXCEPT !.stop = TRUE]
            /\ out' = ApiResult("Stop", "")
    /\ UNCHANGED <<probe, loopFrame>>

NextLoop ==
    \/ LoopNewTicker
    \/ LoopStart
    \/ Tick
    \/ LoopTick
    \/ LoopExit
    \/ Stop
    \/ \E p \in BagToSet(probe), res \in ProbeResults :
          ProbeDo(p, res) /\ UNCHANGED <<log, snap, conf, others>>
    \/ \E p \in BagToSet(probe) : ProbeSet(p) /\ UNCHANGED <<log, snap, conf, others>>

\* The goroutine of the loop is scheduled, and a select whose stop case is
\* ready takes it in the end (Go chooses uniformly among the ready cases).
\* Nothing makes a probe's GET return.
SpecLoop ==
    InitLoop /\ [][NextLoop]_vars
        /\ WF_vars(LoopNewTicker) /\ WF_vars(LoopStart) /\ WF_vars(LoopExit)

\* --------------------------------- the two writers of a backend's health flag
\* The program with its membership fixed and one request at a time; obs keeps,
\* for each backend object, what the latest health-relevant observation of it
\* found: the return of a probe's GET, or the failure of a forwarded request.
Seen(healthy) == IF healthy THEN "up" ELSE "down"

NextObs ==
    \/ ReqStart(1) /\ UNCHANGED <<log, snap, conf, others>>
    \/ counter < ChurnCounter /\ ReqAdd(1) /\ UNCHANGED <<log, snap, conf, others>>
    \/ ReqFetch(1) /\ UNCHANGED <<log, snap, conf, others>>
    \/ ReqRead(1) /\ UNCHANGED <<log, snap, conf, others>>
    \/ ReqNoBackend(1) /\ UNCHANGED <<log, snap, conf, others>>
    \/ \E o \in Outcomes :
          /\ Recordable(o, ChurnRecorded) /\ ReqDo(1, o)
          /\ obs' = IF FailureSeen(o) THEN [obs EXCEPT ![req[1].b] = Seen(FALSE)]
                    ELSE obs
          /\ UNCHANGED <<log, snap, conf, lberr, hc, lk, scrape, steady>>
    \/ ReqRecord(1) /\ UNCHANGED <<log, snap, conf, others>>
    \/ ReqMark(1) /\ UNCHANGED <<log, snap, conf, others>>
    \/ \E c \in CopyEnds(req[1].o) :
          ReqRespond(1, c[1], c[2]) /\ UNCHANGED <<log, snap, conf, others>>
    \/ \E S \in SUBSET Positions(backends) :
          Followed(S) /\ HealthPass(S) /\ UNCHANGED <<log, snap, conf, others>>
    \/ \E p \in BagToSet(probe), res \in ProbeResults :
          /\ ProbeDo(p, res)
          /\ obs' = [obs EXCEPT ![p.b] = Seen(ProbeHealthy(res))]
          /\ UNCHANGED <<log, snap, conf, lberr, hc, lk, scrape, steady>>
    \/ \E p \in BagToSet(probe) : ProbeSet(p) /\ UNCHANGED <<log, snap, conf, others>>

SpecObs == Init /\ [][NextObs]_vars

\* ------------------------------------------------ the registry's lock (mutex)
\* The same program with the registry's lock followed: a call of
\* SetBackendHealth is two steps, Lock and then the write with the deferred
\* Unlock.  A step under the read lock waits while a writer is inside; the
\* atomic add and the read of backend.Healthy take no lock.  lk.r is the
\* request goroutine inside SetBackendHealth (0: a probe).
NoWriter == ~lk.held

\* What the steps of this section leave alone.
lockFrame == <<log, snap, conf, lberr, hc, obs, scrape, steady>>

\* A probe's SetBackendHealth(backend.ID, healthy), line 112: sp.mutex.Lock().
ProbeSetLock(p) ==
    /\ BagIn(p, probe)
    /\ p.pc = "set"
    /\ ~lk.held
    /\ lk' = [held |-> TRUE, id |-> heap[p.b].ID, healthy |-> p.healthy, r |-> 0]
    /\ probe' = probe (-) SetToBag({p})
    /\ out' = NoOut
    /\ UNCHANGED <<heap, backends, counter, req, metrics, lockFrame>>

\* The engine's SetBackendHealth(backend.ID, false), line 112: sp.mutex.Lock().
ReqMarkLock(r) ==
    /\ req[r].pc = "recorded"
    /\ FailureSeen(req[r].o)
    /\ ~lk.held
    /\ lk' = [held |-> TRUE, id |-> heap[req[r].b].ID, healthy |-> FALSE, r |-> r]
    /\ req' = [req EXCEPT ![r].pc = "marking"]
    /\ out' = NoOut
    /\ UNCHANGED <<heap, backends, counter, probe, metrics, lockFrame>>

\* SetBackendHealth 115-120 and the deferred Unlock; the call returns.
SetWriteUnlock ==
    /\ lk.held
    /\ heap' = SetBackendHealth(heap, backends, lk.id, lk.healthy)
    /\ lk' = Unlocked
    /\ req' = IF lk.r = 0 THEN req ELSE [req EXCEPT ![lk.r].pc = "marked"]
    /\ out' = NoOut
    /\ UNCHANGED <<backends, counter, probe, metrics, lockFrame>>

NextLock ==
    \/ NoWriter /\ ReqStart(1) /\ UNCHANGED <<log, snap, conf, others>>
    \/ counter < ChurnCounter /\ ReqAdd(1) /\ UNCHANGED <<log, snap, conf, others>>
    \/ NoWriter /\ ReqFetch(1) /\ UNCHANGED <<log, snap, conf, others>>
    \/ ReqRead(1) /\ UNCHANGED <<log, snap, conf, others>>
    \/ NoWriter /\ ReqNoBackend(1) /\ UNCHANGED <<log, snap, conf, others>>
    \/ \E o \in Outcomes :
          Recordable(o, ChurnRecorded) /\ ReqDo(1, o) /\ UNCHANGED <<log, snap, conf, others>>
    \/ ReqRecord(1) /\ UNCHANGED <<log, snap, conf, others>>
    \/ ReqMarkLock(1)
    \/ \E c \in CopyEnds(req[1].o) :
          ReqRespond(1, c[1], c[2]) /\ UNCHANGED <<log, snap, conf, others>>
    \/ \E S \in SUBSET Positions(backends) :
          /\ NoWriter /\ Followed(S)
          /\ HealthPass(S) /\ UNCHANGED <<log, snap, conf, others>>
    \/ \E p \in BagToSet(probe), res \in ProbeResults :
          ProbeDo(p, res) /\ UNCHANGED <<log, snap, conf, others>>
    \/ \E p \in BagToSet(probe) : ProbeSetLock(p)
    \/ SetWriteUnlock

SpecLock == Init /\ [][NextLock]_vars

\* ------------------------------- /metrics: PrometheusMetricsProvider.ServeHTTP
\* The handler of /metrics beside one proxied request.  It takes a snapshot
\* (pc "totals"), writes the totals and the gauges from it to the caller (pc
\* "lock"), takes Metrics.mu for reading (pc "backends", locked), writes the
\* per-backend counters from the live maps, and returns (deferred RUnlock).
\* RecordRequest and RecordFailure take Metrics.mu for writing.
MuFree == ~scrape.locked

\* What the handler of /metrics leaves alone.
scrapeFrame ==
    <<heap, backends, counter, req, probe, metrics, log, snap, conf, lberr, hc, obs, lk,
      steady>>

\* Line 17: snapshot := p.metrics.GetSnapshot().
ScrapeSnapshot ==
    /\ scrape.pc = "idle"
    /\ scrape' = [NoScrape EXCEPT !.pc = "totals", !.snapshot = GetSnapshot(metrics)]
    /\ out' = NoOut
    /\ UNCHANGED scrapeFrame

\* Lines 19-36: the header, the three totals and the two gauges written to w.
ScrapeWriteTotals ==
    /\ scrape.pc = "totals"
    /\ scrape' = [scrape EXCEPT !.pc = "lock"]
    /\ out' = NoOut
    /\ UNCHANGED scrapeFrame

\* Line 39: p.metrics.mu.RLock().
ScrapeRLock ==
    /\ scrape.pc = "lock"
    /\ scrape' = [scrape EXCEPT !.pc = "backends", !.locked = TRUE]
    /\ out' = NoOut
    /\ UNCHANGED scrapeFrame

\* Lines 42-52 and the deferred RUnlock: the per-backend counters, read from
\* the maps and written to w with the lock held; then the handler returns.
ScrapeWriteBackends ==
    /\ scrape.pc = "backends"
    /\ scrape' = [scrape EXCEPT !.pc = "idle", !.locked = FALSE,
                                !.backendRequests = metrics.backendRequests,
                                !.backendFailures = metrics.backendFailures]
    /\ out' = NoOut
    /\ UNCHANGED scrapeFrame

\* A caller of the exported UpdateBackendCount(healthy, total).
CallUpdateBackendCount(healthy, total) ==
    /\ MuFree
    /\ metrics' = UpdateBackendCount(metrics, healthy, total)
    /\ out' = NoOut
    /\ UNCHANGED <<heap, backends, counter, req, probe>>

NextScrape ==
    \/ ReqStart(1) /\ UNCHANGED <<log, snap, conf, others>>
    \/ counter < ChurnCounter /\ ReqAdd(1) /\ UNCHANGED <<log, snap, conf, others>>
    \/ ReqFetch(1) /\ UNCHANGED <<log, snap, conf, others>>
    \/ ReqRead(1) /\ UNCHANGED <<log, snap, conf, others>>
    \/ ReqNoBackend(1) /\ UNCHANGED <<log, snap, conf, others>>
    \/ \E o \in Outcomes :
          Recordable(o, MaxRecorded) /\ ReqDo(1, o) /\ UNCHANGED <<log, snap, conf, others>>
    \/ MuFree /\ ReqRecord(1) /\ UNCHANGED <<log, snap, conf, others>>
    \/ ReqMark(1) /\ UNCHANGED <<log, snap, conf, others>>
    \/ \E c \in CopyEnds(req[1].o) :
          ReqRespond(1, c[1], c[2]) /\ UNCHANGED <<log, snap, conf, others>>
    \/ \E total \in 0..MaxBackends : \E healthy \in 0..total :
          CallUpdateBackendCount(healthy, total) /\ UNCHANGED <<log, snap, conf, others>>
    \/ ScrapeSnapshot
    \/ ScrapeWriteTotals
    \/ ScrapeRLock
    \/ ScrapeWriteBackends

SpecScrape == Init /\ [][NextScrape]_vars

\* ---------------------------------------------------- the errors package
\* The variables of the running program.
program == <<heap, backends, counter, req, out, probe, metrics, log, snap, conf>>

\* An error of the taxonomy was constructed (NewError); no load balancer yet.
InitErr ==
    \E code \in ErrorCodes :
        /\ heap = <<>>
        /\ backends = <<>>
        /\ counter = 0
        /\ req = [r \in Reqs |-> IdleReq]
        /\ out = NoOut
        /\ probe = EmptyBag
        /\ metrics = NewMetrics
        /\ log = [calls |-> <<>>, fresh |-> TRUE]
        /\ snap = NoSnapshot
        /\ conf = NewConf(ValidConfig(1))
        /\ lberr = [NoError EXCEPT !.Code = code]
        /\ hc = NoLoop
        /\ obs = NoObs
        /\ lk = Unlocked
        /\ scrape = NoScrape
        /\ steady = NoSteady

\* e.HTTPStatusCode().
ErrHTTPStatusCode ==
    /\ "HTTPStatusCode" \notin lberr.asked
    /\ lberr' = [lberr EXCEPT !.asked = @ \cup {"HTTPStatusCode"},
                              !.status = HTTPStatusCode(lberr.Code)]
    /\ UNCHANGED <<program, hc, obs, lk, scrape, steady>>

\* The four category predicates called on the error.
ErrCategories ==
    /\ "Is...Error" \notin lberr.asked
    /\ lberr' = [lberr EXCEPT !.asked = @ \cup {"Is...Error"},
                              !.cats = PredicatesTrue(lberr.Code)]
    /\ UNCHANGED <<program, hc, obs, lk, scrape, steady>>

\* e.Is(target), target an error of the taxonomy.
ErrIs(target) ==
    /\ "Is" \notin lberr.asked
    /\ lberr' = [lberr EXCEPT !.asked = @ \cup {"Is"},
                              !.is = [target |-> target,
                                      same |-> Is(lberr.Code, target)]]
    /\ UNCHANGED <<program, hc, obs, lk, scrape, steady>>

NextErr ==
    \/ ErrHTTPStatusCode
    \/ ErrCategories
    \/ \E target \in ErrorCodes : ErrIs(target)

SpecErr == InitErr /\ [][NextErr]_vars

\* ------------------------------------------------------------------ claims
\* The positions of the registry whose backend is healthy.
HealthyPositions == {i \in Positions(backends) : heap[backends[i]].Healthy}

\* The position of pointer b in the registry (0 when it is not in it).
PositionOf(b) ==
    IF \E i \in Positions(backends) : backends[i] = b
    THEN CHOOSE i \in Positions(backends) : backends[i] = b
    ELSE 0

\* The position i steps to after d steps round the registry.
Round(i, d) == ((i - 1 + d) % Len(backends)) + 1

\* The first healthy position after position i, going round.
NextHealthyAfter(i) ==
    LET d == CHOOSE d \in 1..Len(backends) :
                /\ Round(i, d) \in HealthyPositions
                /\ \A e \in 1..(d - 1) : Round(i, e) \notin HealthyPositions
    IN Round(i, d)

\* C1: with the configured backends all healthy and nothing but NextBackend
\* calls made one after another since construction, the k-th call returns the
\* backend at registration position (k-1) mod N.
C1_RoundRobinOrder ==
    log.fresh =>
        \A k \in 1..Len(log.calls) :
            log.calls[k] = backends[((k - 1) % Len(backends)) + 1]

\* C1 witness: three backends, six calls made: B1,B2,B3,B1,B2,B3.
C1_Witness ==
    /\ log.fresh
    /\ Len(backends) = 3
    /\ log.calls = <<backends[1], backends[2], backends[3],
                     backends[1], backends[2], backends[3]>>

\* C7: with the registry fixed, some backends unhealthy and at least one
\* healthy, calls made one after another return healthy backends only, each
\* the next healthy one in registration order after the one before.
C7_SkipsUnhealthy ==
    (HealthyPositions # {} /\ HealthyPositions # Positions(backends)) =>
        /\ \A k \in 1..Len(log.calls) :
              /\ log.calls[k] # 0
              /\ PositionOf(log.calls[k]) \in HealthyPositions
        /\ \A k \in 1..(Len(log.calls) - 1) :
              PositionOf(log.calls[k + 1]) =
                  NextHealthyAfter(PositionOf(log.calls[k]))

\* C7 witness: B2 unhealthy among B1,B2,B3, four calls: B1,B3,B1,B3.
C7_Witness ==
    /\ Len(backends) = 3
    /\ HealthyPositions = {1, 3}
    /\ log.calls = <<backends[1], backends[3], backends[1], backends[3]>>

\* Steps of request r, read off its position before and after: the fetch by
\* index, the read that returns the backend, the answer when there is none,
\* the outbound call, the metrics call, the SetBackendHealth call, the answer
\* to the caller, and any step made with the outcome of the call at hand.
Fetches(r) == req[r].pc = "added" /\ req'[r].pc = "fetched"
Selects(r) == req[r].pc = "fetched" /\ req'[r].pc = "got"
AnswersNoBackend(r) == req[r].pc = "none" /\ req'[r].pc = "idle"
Sends(r) == req[r].pc = "got" /\ req'[r].pc = "back"
Counts(r) == req[r].pc = "back" /\ req'[r].pc = "recorded"
Marks(r) == req[r].pc = "recorded" /\ req'[r].pc = "marked"
Responds(r) ==
    req[r].pc \in {"back", "recorded", "marked"} /\ req'[r].pc = "idle"
Handles(r) ==
    req[r].pc \in {"back", "recorded", "marked"} /\ req'[r] # req[r]

\* Backends are registered and every one of them has its flag false.
AllDown ==
    /\ Len(backends) >= 1
    /\ \A i \in Positions(backends) : ~heap[backends[i]].Healthy

\* C2: the backend a NextBackend call returns was fetched by index from the
\* registry during the call and read as present and healthy at the attempt
\* that returns it.
C2_ReturnsReadHealthy ==
    [][\A r \in Reqs :
          /\ Fetches(r) =>
                /\ req'[r].b = GetBackendByIndex(backends, req[r].index)
                /\ req'[r].b # 0 => PositionOf(req'[r].b) = req[r].index + 1
          /\ Selects(r) =>
                /\ req'[r].b = req[r].b
                /\ req[r].b # 0
                /\ heap[req[r].b].Healthy]_vars

\* C2 witness: a call has returned a backend whose flag has since been set
\* false: the flag was true at the read, not throughout.
C2_Witness ==
    \E r \in Reqs : req[r].pc = "got" /\ ~heap[req[r].b].Healthy

\* C3: while backends are registered and all flags are false, no request
\* selects a backend, and a request that found none is answered 503 with
\* the no-healthy-backends message, no outbound request sent, HealthyCount 0.
C3_AllDownUnavailable ==
    [][AllDown =>
          \A r \in Reqs :
              /\ ~Selects(r)
              /\ AnswersNoBackend(r) =>
                    /\ out'.status = StatusServiceUnavailable
                    /\ out'.code = ErrNoHealthyBackends
                    /\ out'.body = <<"no healthy backends available">>
                    /\ ~out'.sent
                    /\ GetHealthyBackendCount(heap, backends) = 0]_vars

\* C3 witness: the 503 has just been written with every flag false.
C3_Witness ==
    /\ AllDown
    /\ out.op = "ServeHTTP"
    /\ out.status = StatusServiceUnavailable
    /\ ~out.sent

\* C4 as claimed: after a network-level failure of the outbound request the
\* SetBackendHealth call made for it leaves the flag of the backend that was
\* selected, if still registered, false.
C4_FailureMarksSelected ==
    [][\A r \in Reqs :
          (/\ Marks(r)
           /\ SendError(req[r].o.kind) \in {ErrBackendConnection, ErrBackendTimeout}
           /\ PositionOf(req[r].b) # 0)
          => ~heap'[req[r].b].Healthy]_vars

\* C5: no step of the handling of a backend answer with status >= 500 changes
\* a flag, and a step of the forwarding path that changes a flag is the
\* SetBackendHealth call for a network-level failure.
C5_ServerErrorKeepsHealth ==
    [][\A r \in Reqs :
          /\ Sends(r) => heap' = heap
          /\ Handles(r) =>
                /\ req[r].o.status >= 500 => heap' = heap
                /\ heap' # heap =>
                      /\ Marks(r)
                      /\ req[r].o.kind # "resp"
                      /\ SendError(req[r].o.kind) \in
                            {ErrBackendConnection, ErrBackendTimeout}]_vars

\* C5 witness: a 500 of the backend has been answered and the backend that
\* gave it is still healthy.
C5_Witness ==
    /\ out.op = "ServeHTTP"
    /\ out.bstatus = StatusInternalServerError
    /\ heap[out.b].Healthy

\* A probe goroutine p takes its SetBackendHealth step.
ProbeSets(p) ==
    /\ p.pc = "set"
    /\ CopiesIn(p, probe') < CopiesIn(p, probe)

\* C6 as claimed: a probe that found its backend not answering 200 leaves the
\* flag of that backend, if still registered, false; and a flag goes from
\* false to true only in the step of a probe of that backend that got 200.
C6_ProbeMarksItsBackend ==
    [][/\ \A p \in BagToSet(probe) :
             (ProbeSets(p) /\ ~p.healthy /\ PositionOf(p.b) # 0)
             => ~heap'[p.b].Healthy
       /\ \A b \in 1..Len(heap) :
             (~heap[b].Healthy /\ heap'[b].Healthy)
             => \E p \in BagToSet(probe) :
                    ProbeSets(p) /\ p.healthy /\ p.b = b]_vars

\* C8 as claimed: no two registered backends carry the same identifier.
C8_UniqueIDs ==
    \A i, j \in Positions(backends) :
        i # j => heap[backends[i]].ID # heap[backends[j]].ID

\* C9 as claimed: a request that finds the registry empty is answered 503 as
\* pool-empty.
C9_EmptyPoolUnavailable ==
    [][\A r \in Reqs :
          (AnswersNoBackend(r) /\ Len(backends) = 0) =>
              /\ out'.code = ErrPoolEmpty
              /\ out'.status = StatusServiceUnavailable]_vars

\* C9 amended: a request that finds the registry empty is classified as
\* pool-empty and answered 500 with the message "server pool is empty".
C9_EmptyPoolInternalError ==
    [][\A r \in Reqs :
          (AnswersNoBackend(r) /\ Len(backends) = 0) =>
              /\ out'.code = ErrPoolEmpty
              /\ out'.status = StatusInternalServerError
              /\ out'.body = <<"server pool is empty">>
              /\ ~out'.sent]_vars

\* C9 witness: every backend removed, and the request just answered.
C9_Witness ==
    /\ Len(backends) = 0
    /\ out.op = "ServeHTTP"
    /\ out.code = ErrPoolEmpty

\* C10 as claimed: a backend status s >= 500 reaches the caller as s.
C10_ServerErrorRelayed ==
    (out.op = "ServeHTTP" /\ out.bstatus >= 500) => out.status = out.bstatus

\* C10 amended: a backend status s >= 500 reaches the caller as 502, the
\* status of the backend-response error, with that error's message (naming
\* the backend and s) as body.
C10_ServerErrorBadGateway ==
    (out.op = "ServeHTTP" /\ out.bstatus >= 500) =>
        /\ out.status = StatusBadGateway
        /\ out.code = ErrBackendResponse
        /\ out.body = <<"backend response error: %s (status: %d)",
                       heap[out.b].ID, out.bstatus>>

\* C10 witness: the backend answered 503 and the caller got an answer.
C10_Witness ==
    /\ out.op = "ServeHTTP"
    /\ out.sent
    /\ out.bstatus = StatusServiceUnavailable

\* The outbound request of r was sent and failed.
SendFailed(r) == req[r].o.kind \in {"conn", "timeout", "cancel"}

\* Exactly one failure is counted, for backend id, and nothing else.
OneFailureFor(id) ==
    /\ metrics'.totalRequests = metrics.totalRequests + 1
    /\ metrics'.failedRequests = metrics.failedRequests + 1
    /\ metrics'.successfulRequests = metrics.successfulRequests
    /\ metrics'.backendRequests = metrics.backendRequests
    /\ metrics'.backendFailures =
          [metrics.backendFailures EXCEPT ![id] = @ + 1]

\* C11: a failed send is answered 504 as a backend timeout or 502 as a
\* connection failure, and counts exactly one failure for the chosen backend:
\* its metrics call counts one, no other step of its handling counts, and the
\* answer is written after that call.
C11_SendFailureStatus ==
    [][\A r \in Reqs :
          (Handles(r) /\ SendFailed(r)) =>
              /\ IF Counts(r) THEN OneFailureFor(heap[req[r].b].ID)
                 ELSE metrics' = metrics
              /\ Responds(r) =>
                    /\ req[r].pc = "marked"
                    /\ out'.sent
                    /\ IF req[r].o.kind = "timeout"
                       THEN /\ out'.code = ErrBackendTimeout
                            /\ out'.status = StatusGatewayTimeout
                       ELSE /\ out'.code = ErrBackendConnection
                            /\ out'.status = StatusBadGateway]_vars

\* C11 witness: a timeout has been answered 504 and counted once.
C11_Witness ==
    /\ out.op = "ServeHTTP"
    /\ out.o.kind = "timeout"
    /\ out.code = ErrBackendTimeout
    /\ out.status = StatusGatewayTimeout
    /\ metrics.failedRequests = 1
    /\ metrics.backendFailures[heap[out.b].ID] = 1

\* client.Do returned a response below 500 for the request of r.
Relays(r) == req[r].o.kind = "resp" /\ req[r].o.status < 500

\* The status of the backend's own answer to the request of r: that of the
\* redirect when the client followed one, else that of the response at hand.
BackendStatus(o) == IF o.via # 0 THEN o.via ELSE o.status

\* The backend itself answered the request of r below 500.
BackendAnswersBelow500(r) ==
    req[r].o.kind = "resp" /\ BackendStatus(req[r].o) < 500

\* Exactly one success is counted, for backend id, and nothing else.
OneSuccessFor(id) ==
    /\ metrics'.totalRequests = metrics.totalRequests + 1
    /\ metrics'.successfulRequests = metrics.successfulRequests + 1
    /\ metrics'.failedRequests = metrics.failedRequests
    /\ metrics'.backendFailures = metrics.backendFailures
    /\ metrics'.backendRequests =
          [metrics.backendRequests EXCEPT ![id] = @ + 1]

\* Sequence s is the first chunks of sequence t.
IsPrefix(s, t) == Len(s) <= Len(t) /\ s = SubSeq(t, 1, Len(s))

Called(op) == out'.op = op

\* Every backend registered before the step is the same object, with the same
\* ID and flag, after it.
BackendsKept ==
    \A i \in Positions(backends) : heap'[backends[i]] = heap[backends[i]]

\* C13: AddBackend with a parsable URL returns nil and appends one new
\* backend, healthy, at the end, the others staying where and as they were;
\* with an unparsable URL it returns an error and changes nothing.
C13_AddAppendsOne ==
    [][Called("AddBackend") =>
          IF ParseOK(out'.url)
          THEN /\ out'.ret = "nil"
               /\ Len(backends') = Len(backends) + 1
               /\ \A i \in Positions(backends) : backends'[i] = backends[i]
               /\ BackendsKept
               /\ backends'[Len(backends')] \notin DOMAIN heap
               /\ heap'[backends'[Len(backends')]].Healthy
          ELSE /\ out'.ret = "error"
               /\ backends' = backends
               /\ heap' = heap]_vars

\* C13 witness: a backend has been appended behind two others.
C13_Witness ==
    /\ out.op = "AddBackend"
    /\ out.ret = "nil"
    /\ Len(backends) = 3

\* The backends registered under identifier id.
PositionsWithID(id) == {i \in Positions(backends) : heap[backends[i]].ID = id}

\* C14: RemoveBackend(id) returns true exactly when id is registered; it then
\* takes out the first backend with that id and nothing else, the others
\* keeping their order; otherwise the registry is as before.
C14_RemoveFirstMatch ==
    [][Called("RemoveBackend") =>
          LET hits == PositionsWithID(out'.id)
          IN /\ out'.ret = "true" <=> hits # {}
             /\ heap' = heap
             /\ IF hits = {} THEN backends' = backends
                ELSE \E i \in hits :
                        /\ \A j \in hits : i <= j
                        /\ Len(backends') = Len(backends) - 1
                        /\ \A j \in 1..(i - 1) : backends'[j] = backends[j]
                        /\ \A j \in i..(Len(backends) - 1) :
                              backends'[j] = backends[j + 1]]_vars

\* C14 witness: the first of three has been removed.
C14_Witness ==
    /\ out.op = "RemoveBackend"
    /\ out.ret = "true"
    /\ out.id = 1
    /\ Len(backends) = 2
    /\ heap[backends[1]].ID = 2
    /\ heap[backends[2]].ID = 3

\* C15 as claimed: SetBackendHealth(id, h) changes nothing when id is not
\* registered; otherwise every registered backend with that id has flag h
\* afterwards, and membership, order, ids and the other flags are as before.
C15_SetHealthFrame ==
    [][Called("SetBackendHealth") =>
          LET hits == PositionsWithID(out'.id)
          IN /\ backends' = backends
             /\ hits = {} => heap' = heap
             /\ \A i \in Positions(backends) :
                   /\ heap'[backends[i]].ID = heap[backends[i]].ID
                   /\ heap'[backends[i]].Healthy =
                         IF i \in hits THEN out'.healthy
                         ELSE heap[backends[i]].Healthy]_vars

\* What a caller reads through the pointers of its snapshot now.
ThroughSnapshot ==
    [i \in Positions(snap.backends) |-> heap[snap.backends[i]]]

\* C16 as claimed: what is read through a snapshot, its backends in order
\* and their flags, is what was there when it was taken.
C16_SnapshotImmutable ==
    snap.taken => ThroughSnapshot = snap.seen

\* Validate has returned for the Config at hand.
Validated == conf.phase \in {"validated", "rejected"}

\* The rules that the tests of the package hold a Config to, and that c
\* violates: port in 1..65535, at least one backend, every backend URL with
\* scheme and host, a health-check path, positive interval and timeout,
\* timeout below interval, positive backend timeout.  (ValidateConfig's own
\* rules are those of ValidateConfig above.)
RulesViolated(c) ==
    {rule \in {"port", "backends", "url", "path", "interval", "timeout",
               "relationship", "backend-timeout"} :
        CASE rule = "port" -> c.Port < 1 \/ c.Port > 65535
          [] rule = "backends" -> Len(c.Backends) = 0
          [] rule = "url" ->
                \E i \in 1..Len(c.Backends) :
                    ~HasScheme(c.Backends[i]) \/ ~HasHost(c.Backends[i])
          [] rule = "path" -> c.HealthCheckPath = ""
          [] rule = "interval" -> c.HealthCheckInterval <= 0
          [] rule = "timeout" -> c.HealthCheckTimeout <= 0
          [] rule = "relationship" ->
                c.HealthCheckTimeout >= c.HealthCheckInterval
          [] rule = "backend-timeout" -> c.BackendTimeout <= 0}

\* C17 as claimed: the result of validation carries at least as many errors
\* as the Config violates rules.
C17_AllViolationsReturned ==
    Validated => Len(conf.verr) >= Cardinality(RulesViolated(conf.cfg))

\* C18 as claimed: validation returns no error exactly for the Configs that
\* violate no rule.
C18_ValidExactly ==
    Validated => (conf.verr = <<>> <=> RulesViolated(conf.cfg) = {})

\* The errors TestInvalidBackends expects for the URLs bs[i..]: one for an
\* empty URL, and for any other one per part, scheme and host, that it lacks.
RECURSIVE MissingParts(_, _)
MissingParts(bs, i) ==
    IF i > Len(bs) THEN 0
    ELSE (IF bs[i] = "" THEN 1
          ELSE (IF HasScheme(bs[i]) THEN 0 ELSE 1) + (IF HasHost(bs[i]) THEN 0 ELSE 1))
         + MissingParts(bs, i + 1)

\* C19 as claimed: a Config whose only fault is a backend URL that url.Parse
\* accepts but that lacks scheme or host is rejected, with one error for each
\* missing part.
C19_RejectsPartialURL ==
    (/\ Validated
     /\ RulesViolated(conf.cfg) = {"url"}
     /\ \A i \in 1..Len(conf.cfg.Backends) : ParseOK(conf.cfg.Backends[i])
     /\ MissingParts(conf.cfg.Backends, 1) > 0) =>
        /\ conf.phase = "rejected"
        /\ Len(conf.verr) >= MissingParts(conf.cfg.Backends, 1)

\* C20: NewLoadBalancer on a backend list with an unparsable URL returns the
\* invalid-backend error, on an empty list the pool-empty error; with an
\* error there is no registry, no prober started and no probe.
C20_ConstructionAllOrNothing ==
    conf.phase \in {"failed", "running"} =>
        LET urls == conf.cfg.Backends
        IN /\ (\E i \in 1..Len(urls) : ~ParseOK(urls[i])) =>
                  conf.phase = "failed" /\ conf.err = ErrInvalidBackend
           /\ Len(urls) = 0 =>
                  conf.phase = "failed" /\ conf.err = ErrPoolEmpty
           /\ conf.phase = "failed" =>
                  /\ conf.err # 0
                  /\ heap = <<>> /\ backends = <<>>
                  /\ ~conf.started /\ probe = EmptyBag

\* C20 witness: construction failed at the second URL, after the first had
\* been added to the pool under construction.
C20_Witness ==
    /\ conf.phase = "failed"
    /\ conf.cfg.Backends = <<"http://b", ":bad">>
    /\ conf.err = ErrInvalidBackend
    /\ backends = <<>>

\* C21: HTTPStatusCode gives every code of the taxonomy its canonical status:
\* configuration 400; load balancer 500; health check 503; backend unavailable
\* and no healthy backends 503, backend timeout 504, backend connection and bad
\* response 502; request timeout 504, request failed and response copy 500.
C21_CanonicalStatus ==
    "HTTPStatusCode" \in lberr.asked =>
        LET code == lberr.Code
        IN lberr.status =
             CASE CategoryOf(code) = "configuration" -> 400
               [] CategoryOf(code) = "load balancer" -> 500
               [] CategoryOf(code) = "health check" -> 503
               [] code \in {ErrBackendUnavailable, ErrNoHealthyBackends} -> 503
               [] code = ErrBackendTimeout -> 504
               [] code \in {ErrBackendConnection, ErrBackendResponse} -> 502
               [] code = ErrRequestTimeout -> 504
               [] code \in {ErrRequestFailed, ErrResponseCopy} -> 500

\* C21 witness: a request timeout, a request-category code, answered 504.
C21_Witness ==
    /\ lberr.Code = ErrRequestTimeout
    /\ "HTTPStatusCode" \in lberr.asked
    /\ lberr.status = StatusGatewayTimeout

\* C22: every code's value lies in the range documented for its category:
\* configuration 1000-1099, backend 1100-1199 (backend unavailable 1100, no
\* healthy backends 1104), load balancer 1200-1299 (strategy failure 1200),
\* health check 1300-1399, request 1400-1499 (request timeout 1400).
C22_CodesInDocumentedRange ==
    lberr.Code # 0 =>
        /\ lberr.Code \in DocumentedRange(CategoryOf(lberr.Code))
        /\ lberr.Code = ErrBackendUnavailable => lberr.Code = 1100
        /\ lberr.Code = ErrNoHealthyBackends => lberr.Code = 1104
        /\ lberr.Code = ErrStrategyFailure => lberr.Code = 1200
        /\ lberr.Code = ErrRequestTimeout => lberr.Code = 1400

\* C23: a Metrics Snapshot reports the current healthy and total backend
\* counts: after any registrations, removals, probes and request failures its
\* gauges equal the registry's healthy count and count.
C23_GaugesFollowRegistry ==
    /\ GetSnapshot(metrics).HealthyBackends = GetHealthyBackendCount(heap, backends)
    /\ GetSnapshot(metrics).TotalBackends = GetBackendCount(backends)

\* The loop makes a pass in this step: the immediate one, or one for a tick.
PassStarts ==
    \/ hc.pc = "made" /\ hc'.pc = "wait"
    \/ hc.pc = "wait" /\ hc.tick /\ ~hc'.tick

\* C24: after Stop has returned, the prober starts no new probe pass; only
\* probes already in flight may still complete.
C24_NoPassAfterStop == [][PassStarts => ~hc.stop]_vars

\* C25: the prober makes one full pass at once on start, before any tick is
\* taken (a tick is taken, and the loop returns, only at the select that
\* follows the immediate pass, also when the tick came while that pass was
\* still to be made; the pass launches one probe per registered backend); and
\* once Stop is signalled the loop exits in the end, whether or not probes
\* are still in flight.
C25_ImmediatePassThenExit ==
    /\ [][/\ ((hc.pc # "exited" /\ hc'.pc = "exited") \/ (hc.tick /\ ~hc'.tick)) =>
                hc.pc = "wait"
          /\ (hc.pc # "wait" /\ hc'.pc = "wait") =>
                /\ hc.pc = "made"
                /\ hc'.tick = hc.tick
                /\ \A i \in Positions(backends) :
                      CopiesIn(NetProbe(backends[i]), probe') =
                          CopiesIn(NetProbe(backends[i]), probe) + 1]_vars
    /\ (hc.pc \in {"boot", "made"} ~> hc.pc \notin {"boot", "made"})
    /\ (hc.stop ~> hc.pc = "exited")

\* C25 witness: the loop has returned after Stop with a probe still in flight.
C25_Witness == hc.pc = "exited" /\ hc.stop /\ InFlight > 0

\* A probe goroutine's GET comes back in this step.
ProbeReturns == out'.op = "checkBackend"

\* The probes that this step adds to those in flight.
ProbesAdded == {q \in BagToSet(probe') : CopiesIn(q, probe') > CopiesIn(q, probe)}

\* C26: a probe's computed health is true exactly when an answer with status
\* 200 came; any other status, a transport error or a timeout gives false, the
\* last two alike but for the code of the error (timeout or failed); and what
\* the probe goes on to write is that computed health, for its own backend.
C26_HealthyIffOK ==
    [][ProbeReturns =>
          LET ok == out'.o.kind = "resp" /\ out'.bstatus = 200
          IN /\ out'.healthy <=> ok
             /\ ProbesAdded \subseteq {[pc |-> "set", b |-> out'.b, healthy |-> ok]}
             /\ out'.o.kind = "timeout" =>
                   ProbesAdded # {} /\ out'.code = ErrHealthCheckTimeout
             /\ out'.o.kind = "error" =>
                   ProbesAdded # {} /\ out'.code = ErrHealthCheckFailed]_vars

\* C26 witness: a probe got 204 and computed unhealthy for a healthy backend.
C26_Witness ==
    /\ out.op = "checkBackend"
    /\ out.o.kind = "resp"
    /\ out.bstatus = 204
    /\ ~out.healthy
    /\ BagIn([pc |-> "set", b |-> out.b, healthy |-> FALSE], probe)

\* C27: the prober calls SetHealth only when the computed health differs from
\* the flag the backend has: a probe whose result equals the flag, a failed
\* probe of an already unhealthy backend included, goes on to no SetHealth call.
C27_WritesOnlyOnChange ==
    [][(ProbeReturns /\ out'.healthy = heap[out'.b].Healthy) => ProbesAdded = {}]_vars

\* C28: a backend's health flag reflects the most recent health-relevant
\* observation of that backend: neither a probe nor the forwarding engine
\* writes a result that a later observation of its backend (a later probe's,
\* or a forwarding failure) has replaced, and with no write pending the flag
\* is what was observed last.
C28_LatestObservationWins ==
    [][/\ \A p \in BagToSet(probe) :
             ProbeSets(p) =>
                 /\ obs[p.b] = Seen(p.healthy)
                 /\ (\A q \in BagToSet(probe') : q.pc = "set" => q.b # p.b) =>
                       Seen(heap'[p.b].Healthy) = obs'[p.b]
       /\ \A r \in Reqs : Marks(r) => obs[req[r].b] = Seen(FALSE)]_vars

\* The strategy reads the health flag of backend object b in this step.
StrategyReads(b) ==
    \E r \in Reqs : req[r].pc = "fetched" /\ req[r].b = b /\ req'[r].pc # "fetched"

\* A probe reads the health flag of backend object b in this step.
ProbeReads(b) == ProbeReturns /\ out'.o.kind = "resp" /\ out'.b = b

\* The backend object a SetBackendHealth call inside the lock is about to write.
WriteTarget ==
    IF lk.held /\ FirstWithID(heap, backends, lk.id) # 0
    THEN backends[FirstWithID(heap, backends, lk.id)]
    ELSE 0

\* C29: the list and the health flags are protected by one reader/writer
\* lock: no read of a backend's health flag by the strategy or the prober is
\* made while a SetHealth call is inside the lock to write that flag.
C29_NoReadDuringWrite ==
    [][\A b \in 1..Len(heap) :
          (StrategyReads(b) \/ ProbeReads(b)) => WriteTarget # b]_vars

\* The handler of /metrics writes to its caller in this step.
ScrapeWrites == scrape.pc \in {"totals", "backends"} /\ scrape'.pc # scrape.pc

\* C30: no component holds a lock while it does network I/O: a write to the
\* caller's response is made with no lock held.  (The engine and the probes
\* take a lock only inside a registry or metrics call, which does no I/O; the
\* handler of /metrics is the component that writes between Lock and Unlock.)
C30_NoLockDuringIO == [][ScrapeWrites => ~scrape.locked]_vars

\* Request r begins a call of NextBackend in this step.
CallStarts(r) == req[r].pc = "idle" /\ req'[r].pc # "idle"

\* Request r begins an attempt of its call in this step (the atomic add), and
\* ends one (the read of what it fetched).
Attempts(r) == req[r].pc = "select" /\ req'[r].pc = "added"
AttemptEnds(r) == req[r].pc = "fetched" /\ req'[r].pc # "fetched"

\* C31: a NextBackend call makes at most n attempts, n the backend count read
\* when it starts (none at once, with no attempt, when n = 0): every attempt is
\* made with fewer than n failed ones behind it and either returns a backend or
\* adds one to them, returning none at the n-th; the counter never decreases
\* and moves by exactly 1 per attempt and not otherwise, whatever other calls
\* and AddBackend / RemoveBackend do in between.
C31_BoundedAttempts ==
    [][/\ \A r \in Reqs :
             /\ CallStarts(r) =>
                   /\ req'[r].n = GetBackendCount(backends)
                   /\ req'[r].i = 0
                   /\ req'[r].pc = IF req'[r].n = 0 THEN "none" ELSE "select"
             /\ Attempts(r) =>
                   /\ req[r].i < req[r].n
                   /\ req'[r].n = req[r].n /\ req'[r].i = req[r].i
             /\ AttemptEnds(r) =>
                   /\ req'[r].n = req[r].n
                   /\ \/ req'[r].pc = "got" /\ req'[r].i = req[r].i
                      \/ /\ req'[r].i = req[r].i + 1
                         /\ req'[r].pc = IF req'[r].i < req[r].n THEN "select"
                                         ELSE "none"
       /\ counter' = counter + Cardinality({r \in Reqs : Attempts(r)})]_vars

\* C31 witness: a call that read two backends has made its two attempts and
\* found none, both backends removed meanwhile, while another call took a
\* counter value in between.
C31_Witness ==
    /\ req[1].pc = "none" /\ req[1].n = 2 /\ req[1].i = 2
    /\ req[2].pc = "got"
    /\ Len(backends) = 0
    /\ counter = 3

\* The sum of the values of a per-backend counter map.
RECURSIVE SumOver(_, _)
SumOver(f, S) ==
    IF S = {} THEN 0
    ELSE LET id == CHOOSE x \in S : TRUE IN f[id] + SumOver(f, S \ {id})

\* The handler of /metrics takes its snapshot in this step.
SnapshotTaken == scrape.pc = "idle" /\ scrape'.pc = "totals"

\* C32: in every reachable state of the metrics, total requests = successful +
\* failed, the per-backend request counters sum to successful and the
\* per-backend failure counters to failed; and taking a snapshot changes no
\* counter and yields the totals as they are.
C32_CountersAddUp ==
    /\ [](/\ metrics.totalRequests =
                metrics.successfulRequests + metrics.failedRequests
          /\ SumOver(metrics.backendRequests, IDs) = metrics.successfulRequests
          /\ SumOver(metrics.backendFailures, IDs) = metrics.failedRequests)
    /\ [][SnapshotTaken =>
             /\ metrics' = metrics
             /\ scrape'.snapshot.TotalRequests = metrics.totalRequests
             /\ scrape'.snapshot.SuccessfulRequests = metrics.successfulRequests
             /\ scrape'.snapshot.FailedRequests = metrics.failedRequests]_vars

\* C32 witness: one success and one failure recorded, and a snapshot of them
\* taken.
C32_Witness ==
    /\ metrics.successfulRequests = 1
    /\ metrics.failedRequests = 1
    /\ scrape.pc = "totals"
    /\ scrape.snapshot.TotalRequests = 2

\* C33: a request for which the strategy returned no backend, the pool empty
\* or no backend found healthy, is answered with no further processing: no
\* outbound request is sent, and the step changes no health flag, no metrics
\* counter, nothing of the registry, the counter or the probes.
C33_NoBackendNoEffect ==
    [][\A r \in Reqs :
          AnswersNoBackend(r) =>
              /\ out'.op = "ServeHTTP"
              /\ out'.code \in {ErrPoolEmpty, ErrNoHealthyBackends}
              /\ ~out'.sent
              /\ out'.b = 0
              /\ heap' = heap
              /\ metrics' = metrics
              /\ backends' = backends
              /\ counter' = counter
              /\ probe' = probe]_vars

\* C33 witness: a call made its attempts on a registry emptied meanwhile, and
\* the request was answered as pool-empty with nothing sent.
C33_Witness ==
    /\ out.op = "ServeHTTP"
    /\ out.code = ErrPoolEmpty
    /\ ~out.sent
    /\ counter >= 1
    /\ Len(backends) = 0
    /\ metrics = NewMetrics

\* C34: the category predicates classify by category: each of the four
\* (configuration, backend, health check, request) answers true for exactly
\* the codes of its category, and every code of the taxonomy satisfies exactly
\* one of them.
C34_PredicatesClassify ==
    "Is...Error" \in lberr.asked =>
        /\ "IsConfigurationError" \in lberr.cats <=>
              CategoryOf(lberr.Code) = "configuration"
        /\ "IsBackendError" \in lberr.cats <=> CategoryOf(lberr.Code) = "backend"
        /\ "IsHealthCheckError" \in lberr.cats <=>
              CategoryOf(lberr.Code) = "health check"
        /\ "IsRequestError" \in lberr.cats <=> CategoryOf(lberr.Code) = "request"
        /\ Cardinality(lberr.cats) = 1

\* The call of NextBackend by request r ends without a backend in this step.
ReturnsNone(r) == req[r].pc \in {"idle", "fetched"} /\ req'[r].pc = "none"

\* C35: with the registry not modified, a NextBackend call during all of
\* which at least one backend stayed registered and healthy returns a backend,
\* never none, and its request is not answered no-healthy-backends / 503,
\* also when other requests call NextBackend meanwhile and advance the counter.
C35_ReturnsWhileOneHealthy ==
    [][\A r \in Reqs :
          /\ ReturnsNone(r) => steady'[r] = {}
          /\ (AnswersNoBackend(r) /\ out'.status = StatusServiceUnavailable) =>
                steady[r] = {}]_vars

\* Every backend object other than x has its flag after the step as before.
OthersKeepFlag(x) ==
    \A y \in 1..Len(heap) : y # x => heap'[y].Healthy = heap[y].Healthy

\* C36: a health result is written only to the backend it was observed on: the
\* SetHealth step of a probe launched for backend X, and the handling of a
\* forwarding failure on X, change the flag of no other backend, also when X
\* was removed and other backends were added meanwhile.
C36_WritesOwnBackendOnly ==
    [][/\ \A p \in BagToSet(probe) : ProbeSets(p) => OthersKeepFlag(p.b)
       /\ \A r \in Reqs : Marks(r) => OthersKeepFlag(req[r].b)]_vars

\* C37: the forwarding engine sets a health flag to false only when the
\* backend itself failed or timed out: a step of the handling of a request
\* that changes a flag handles a connection failure or a timeout, and no step
\* of one whose outbound call ended because the caller cancelled the inbound
\* request changes a flag.
C37_CancelKeepsHealth ==
    [][\A r \in Reqs :
          Handles(r) =>
              /\ heap' # heap => req[r].o.kind \in {"conn", "timeout"}
              /\ req[r].o.kind = "cancel" => heap' = heap]_vars

\* C38: Stop can be called more than once: the first call signals the prober
\* to stop, and a call made when Stop has been called before raises no panic
\* and changes nothing.
C38_StopTwice ==
    [][Called("Stop") =>
          IF hc.stop
          THEN out'.ret # "panic" /\ hc' = hc
          ELSE hc'.stop]_vars

\* C39: every /metrics response is one consistent point in time: in a response
\* written out in full, the per-backend request counters sum to the
\* successful-requests total it shows and the per-backend failure counters to
\* its failed-requests total, also while requests are recorded meanwhile.
C39_ScrapeConsistent ==
    scrape.pc = "idle" =>
        /\ SumOver(scrape.backendRequests, IDs) = scrape.snapshot.SuccessfulRequests
        /\ SumOver(scrape.backendFailures, IDs) = scrape.snapshot.FailedRequests

====
